---- MODULE Spec2Model ----
(***************************************************************************)
(* PackInsight package scanner (src/lib/package-scanner.ts): the trust     *)
(* score calculator and the scan orchestrator, as state machines.          *)
(*                                                                         *)
(* Time is counted in whole days: a timestamp is a day number, Date.now()  *)
(* is the variable now, and (Date.now() - t) / 86400000 is now - t.        *)
(* An optional value is a sequence of length 0 (absent) or 1 (present).    *)
(***************************************************************************)
EXTENDS Integers, Sequences, FiniteSets, TLC

VARIABLES
    now,            \* the clock read by Date.now(), in days
    args,           \* the arguments of calculateTrustScore under test
    ret,            \* optional: what the latest invocation returned
    retAt,          \* the time of the latest invocation
    raw,            \* optional: its four local sub-scores at the return
    first,          \* optional: the first invocation's time and return value
    env,            \* process.env: which credentials are configured
    packages,       \* the argument of scanPackages
    i,              \* its loop index (1-based)
    pc,             \* its position in the loop body
    locals,         \* the bindings of the try block for packages[i]
    results,        \* the list it builds and returns
    answers,        \* history: what the upstream services answered, per package
    vPkg,           \* the argument of fetchVulnerabilities under test
    vNodes,         \* optional: the advisory nodes source A answers with
    vVulns,         \* optional: the records source B (OSV) answers with
    vCall,          \* optional: the two source results and the returned value
    fwrArgs,        \* the arguments retries and timeout of fetchWithRetry
    attempt,        \* its loop variable
    fwrPc,          \* its position: "loop", "backoff", "done", "raised"
    fwrLog,         \* history: the outcome of each attempt made
    fwrDelays,      \* history: the delays it slept, in ms
    fwrRet,         \* optional: what it returned
    rtRoute,        \* which POST handler runs: "scan" or "scan-package"
    rtAnalyses,     \* what scanPackages returned to it
    rtPc,           \* the handler's position: "built", "spawned", "responded"
    rtResponse,     \* optional: the response it returned
    savePc,         \* the position of saveToDbAsync
    saveOutcome,    \* history: how saveToDbAsync ended
    saveAttempt,    \* the attempt of executeWithRetry
    ewrArgs,        \* the retries and delayMs executeWithRetry was called with
    saveLog,        \* history: how each invocation of the operation settled
    saveWaits,      \* history: the delays executeWithRetry slept, in order
    scansTable,     \* the rows of the scans table
    dlRequests,     \* fetchNpmDownloadStats: per window, optional: how its request settled
    dlOrder,        \* history: the windows in the order their requests settled
    dlRet,          \* optional: what fetchNpmDownloadStats returned
    query,          \* PackageSearch: the text of the input
    psEcosystem,    \* PackageSearch: the selected ecosystem
    suggestions,    \* PackageSearch: the suggestion names
    showSuggestions,\* PackageSearch: whether the dropdown is open
    selectedIndex,  \* PackageSearch: the highlighted suggestion (0-based), -1 for none
    debounce,       \* optional: the pending 300 ms timer, with the query and ecosystem of its closure
    searches,       \* the /api/search requests in flight
    lastEvent,      \* history: the latest key press, the index before it, the onSearch call it made
    ftClock,        \* fetchWithTimeout: the time since the calls were made, in ticks
    ftCalls,        \* fetchWithTimeout: per call in flight, its timeout, position and timer
    ghResponses,    \* fetchGitHubStats: the responses to the contributors and pulls requests
    ghRet,          \* optional: the contributors and pullRequests it returned
    hsScans,        \* /api/history: the rows of the scans table
    hsLast          \* optional: the latest request to /api/history and its response

scoreVars == <<args, ret, retAt, raw, first>>

scanVars == <<env, packages, i, pc, locals, results, answers>>

vulnVars == <<vPkg, vNodes, vVulns, vCall>>

retryVars == <<fwrArgs, attempt, fwrPc, fwrLog, fwrDelays, fwrRet>>

routeVars == <<rtRoute, rtAnalyses, rtPc, rtResponse, savePc, saveOutcome, saveAttempt, ewrArgs,
               saveLog, saveWaits, scansTable>>

dlVars == <<dlRequests, dlOrder, dlRet>>

searchVars == <<query, psEcosystem, suggestions, showSuggestions, selectedIndex,
                debounce, searches, lastEvent>>

timeoutVars == <<ftClock, ftCalls>>

githubVars == <<ghResponses, ghRet>>

historyVars == <<hsScans, hsLast>>

auxVars == <<vulnVars, retryVars, routeVars, dlVars, searchVars, timeoutVars, githubVars, historyVars>>

vars == <<now, args, ret, retAt, raw, first,
          env, packages, i, pc, locals, results, answers, auxVars>>

-----------------------------------------------------------------------------
(* Bounds of the model *)

MaxVulns == 3

MaxTicks == 2

MaxPackages == 2

-----------------------------------------------------------------------------
(* Helpers *)

Max(a, b) == IF a >= b THEN a ELSE b

Min(a, b) == IF a <= b THEN a ELSE b

\* Math.round(n / d) for d > 0: the nearest integer, a half rounding up.
Round(n, d) == (2 * n + d) \div (2 * d)

\* A date string as the code sees it: absent (undefined or ''), a string
\* new Date() cannot parse (getTime() is NaN), or a parseable date.
NoDate == [kind |-> "absent", t |-> 0]

BadDate == [kind |-> "invalid", t |-> 0]

DateAt(t) == [kind |-> "date", t |-> t]

Severity == {"critical", "high", "medium", "low"}

\* vulnerabilities.filter(v => v.severity === s).length
CountSeverity(vulnerabilities, s) ==
    Cardinality({k \in DOMAIN vulnerabilities : vulnerabilities[k].severity = s})

DateNow == now

-----------------------------------------------------------------------------
(* calculateTrustScore *)

SecurityScoreNoFloor(vulnerabilities) ==
    40 - CountSeverity(vulnerabilities, "critical") * 15
       - CountSeverity(vulnerabilities, "high") * 10
       - CountSeverity(vulnerabilities, "medium") * 5

SecurityScoreLowCounts(vulnerabilities) ==
    Max(0, 40 - CountSeverity(vulnerabilities, "critical") * 15
              - CountSeverity(vulnerabilities, "high") * 10
              - (CountSeverity(vulnerabilities, "medium")
                 + CountSeverity(vulnerabilities, "low")) * 5)

SecurityScore(vulnerabilities) ==
    Max(0, 40 - CountSeverity(vulnerabilities, "critical") * 15
              - CountSeverity(vulnerabilities, "high") * 10
              - CountSeverity(vulnerabilities, "medium") * 5)

\* The penalty for the age of the last publish (metadata.lastPublish).
PublishPenalty(lastPublish) ==
    IF lastPublish.kind # "date" THEN 0
    ELSE LET daysSinceUpdate == DateNow - lastPublish.t
         IN  IF daysSinceUpdate > 730 THEN 15
             ELSE IF daysSinceUpdate > 365 THEN 10
             ELSE IF daysSinceUpdate > 180 THEN 5
             ELSE 0

\* The bonus for a recent commit (githubStats.lastCommit).
CommitBonus(githubStats) ==
    IF githubStats = <<>> THEN 0
    ELSE IF githubStats[1].lastCommit.kind # "date" THEN 0
    ELSE LET daysSinceCommit == DateNow - githubStats[1].lastCommit.t
         IN  IF daysSinceCommit < 30 THEN 5 ELSE 0

MaintenanceScore(metadata, githubStats) ==
    Min(25, Max(0, 25 - PublishPenalty(metadata.lastPublish) + CommitBonus(githubStats)))

StarsPointsCumulative(githubStats) ==
    IF githubStats = <<>> THEN 0
    ELSE LET stars == githubStats[1].stars
         IN  (IF stars > 10000 THEN 8 ELSE 0) + (IF stars > 1000 THEN 6 ELSE 0)
             + (IF stars > 100 THEN 4 ELSE 0) + (IF stars > 10 THEN 2 ELSE 0)

StarsPoints(githubStats) ==
    IF githubStats = <<>> THEN 0
    ELSE LET stars == githubStats[1].stars
         IN  IF stars > 10000 THEN 8
             ELSE IF stars > 1000 THEN 6
             ELSE IF stars > 100 THEN 4
             ELSE IF stars > 10 THEN 2
             ELSE 0

DownloadPoints(downloadStats) ==
    IF downloadStats.lastMonth = <<>> THEN 0
    ELSE LET lastMonth == downloadStats.lastMonth[1]
         IN  IF lastMonth > 1000000 THEN 7
             ELSE IF lastMonth > 100000 THEN 5
             ELSE IF lastMonth > 10000 THEN 3
             ELSE IF lastMonth > 1000 THEN 1
             ELSE 0

PopularityScore(githubStats, downloadStats) ==
    Min(20, 5 + StarsPoints(githubStats) + DownloadPoints(downloadStats))

DependenciesScoreInclusive(dependencies) ==
    LET depCount == Cardinality(dependencies)
    IN  IF depCount >= 100 THEN 5
        ELSE IF depCount >= 50 THEN 10
        ELSE IF depCount >= 20 THEN 12
        ELSE 15

\* dependencies is the set of keys of the dependency map.
DependenciesScore(dependencies) ==
    LET depCount == Cardinality(dependencies)
    IN  IF depCount > 100 THEN 5
        ELSE IF depCount > 50 THEN 10
        ELSE IF depCount > 20 THEN 12
        ELSE 15

RawScoresBonusInPopularity(vulnerabilities, metadata, dependencies, githubStats, downloadStats) ==
    [security     |-> SecurityScore(vulnerabilities),
     maintenance  |-> Min(25, Max(0, 25 - PublishPenalty(metadata.lastPublish))),
     popularity   |-> Min(20, 5 + CommitBonus(githubStats) + StarsPoints(githubStats)
                               + DownloadPoints(downloadStats)),
     dependencies |-> DependenciesScore(dependencies)]

TrustScoreOfWithoutDependencies(r) ==
    [score |-> Min(100, Max(0, Round(r.security + r.maintenance + r.popularity, 1))),
     breakdown |-> [security     |-> Round(r.security * 100, 40),
                    maintenance  |-> Round(r.maintenance * 100, 25),
                    popularity   |-> Round(r.popularity * 100, 20),
                    dependencies |-> Round(r.dependencies * 100, 15)]]

\* The four local sub-scores of calculateTrustScore at its return statement.
RawScores(vulnerabilities, metadata, dependencies, githubStats, downloadStats) ==
    [security     |-> SecurityScore(vulnerabilities),
     maintenance  |-> MaintenanceScore(metadata, githubStats),
     popularity   |-> PopularityScore(githubStats, downloadStats),
     dependencies |-> DependenciesScore(dependencies)]

\* Math.floor in place of Math.round.
TrustScoreOfFloor(r) ==
    [score |-> Min(100, Max(0, r.security + r.maintenance + r.popularity + r.dependencies)),
     breakdown |-> [security     |-> (r.security * 100) \div 40,
                    maintenance  |-> (r.maintenance * 100) \div 25,
                    popularity   |-> (r.popularity * 100) \div 20,
                    dependencies |-> (r.dependencies * 100) \div 15]]

\* The popularity field normalised by the maintenance maximum.
TrustScoreOfPopularityOver25(r) ==
    [score |-> Min(100, Max(0, Round(r.security + r.maintenance
                                     + r.popularity + r.dependencies, 1))),
     breakdown |-> [security     |-> Round(r.security * 100, 40),
                    maintenance  |-> Round(r.maintenance * 100, 25),
                    popularity   |-> Round(r.popularity * 100, 25),
                    dependencies |-> Round(r.dependencies * 100, 15)]]

TrustScoreOf(r) ==
    [score |-> Min(100, Max(0, Round(r.security + r.maintenance
                                     + r.popularity + r.dependencies, 1))),
     breakdown |-> [security     |-> Round(r.security * 100, 40),
                    maintenance  |-> Round(r.maintenance * 100, 25),
                    popularity   |-> Round(r.popularity * 100, 20),
                    dependencies |-> Round(r.dependencies * 100, 15)]]

CalculateTrustScore(vulnerabilities, metadata, dependencies, githubStats, downloadStats) ==
    TrustScoreOf(RawScores(vulnerabilities, metadata, dependencies,
                           githubStats, downloadStats))

-----------------------------------------------------------------------------
(* The inputs calculateTrustScore is applied to *)

SeqsUpTo(S, n) == UNION {[1..k -> S] : k \in 0..n}

\* A vulnerability list with the given severities.
VulnList(sevs) == [k \in DOMAIN sevs |-> [id |-> k, severity |-> sevs[k]]]

VulnProbe == {VulnList(s) : s \in SeqsUpTo(Severity, MaxVulns)}

PublishProbe == {NoDate, BadDate} \cup {DateAt(0 - a) : a \in {0, 179, 364, 729, 800}}

CommitProbe == {NoDate, BadDate} \cup {DateAt(0 - a) : a \in {0, 28, 400}}

StarsProbe == {0, 10, 11, 100, 101, 1000, 1001, 10000, 10001}

DownloadsProbe == {0, 1000, 1001, 10000, 10001, 100000, 100001, 1000000, 1000001}

DepCountProbe == {0, 20, 21, 50, 51, 100, 101}

GithubStatsOf(stars, lastCommit) == <<[stars |-> stars, lastCommit |-> lastCommit]>>

ArgsOf(v, p, d, g, m) ==
    [vulnerabilities |-> v,
     metadata        |-> [lastPublish |-> p],
     dependencies    |-> 1..d,
     githubStats     |-> g,
     downloadStats   |-> [lastMonth |-> m]]

\* One argument varies over its whole probe set, the others stay neutral ...
VulnInputs == {ArgsOf(v, NoDate, 0, <<>>, <<>>) : v \in VulnProbe}

MaintenanceInputs ==
    {ArgsOf(<<>>, p, 0, g, <<>>) :
        p \in PublishProbe, g \in {<<>>} \cup {GithubStatsOf(0, c) : c \in CommitProbe}}

PopularityInputs ==
    {ArgsOf(<<>>, NoDate, 0, g, m) :
        g \in {<<>>} \cup {GithubStatsOf(s, NoDate) : s \in StarsProbe},
        m \in {<<>>} \cup {<<n>> : n \in DownloadsProbe}}

DependencyInputs == {ArgsOf(<<>>, NoDate, d, <<>>, <<>>) : d \in DepCountProbe}

\* ... and all of them vary together over a coarser grid.
MixedInputs ==
    {ArgsOf(v, p, d, g, m) :
        v \in {x \in VulnProbe : Len(x) < MaxVulns},
        p \in {NoDate, DateAt(0), DateAt(0 - 364), DateAt(0 - 800)},
        d \in {0, 21, 60, 101},
        g \in {<<>>} \cup {GithubStatsOf(s, c) : s \in {0, 101, 10001},
                                                 c \in {NoDate, DateAt(0), DateAt(0 - 400)}},
        m \in {<<>>, <<1001>>, <<1000001>>}}

\* One critical and two high vulnerabilities with 60 dependencies.
ScenarioInputs ==
    {ArgsOf(VulnList(<<"critical", "high", "high">>), NoDate, 60, <<>>, <<>>)}

\* The least favourable package: published 800 days ago, 101 dependencies,
\* no stars, no downloads, with every list of vulnerabilities.
FloorInputs == {ArgsOf(v, DateAt(0 - 800), 101, <<>>, <<>>) : v \in VulnProbe}

ScoreInputs ==
    VulnInputs \cup MaintenanceInputs \cup PopularityInputs
        \cup DependencyInputs \cup MixedInputs \cup ScenarioInputs \cup FloorInputs

-----------------------------------------------------------------------------
(* What the upstream services hold.  A fetch (fetchWithRetry followed by   *)
(* safeJsonParse) either yields the payload below or yields null.          *)

PackageInfoOf(name, ecosystem) == [name |-> name, version |-> "latest", ecosystem |-> ecosystem]

\* lodash and nginx are keys of the fallback table, flask is not, and
\* constructor is a property every object inherits.
PackageProbe ==
    {PackageInfoOf("lodash", "npm"), PackageInfoOf("constructor", "npm"),
     PackageInfoOf("flask", "python"), PackageInfoOf("nginx", "docker")}

\* The configurations of process.env the scans run under.
EnvProbe ==
    {[githubToken |-> FALSE, openaiKey |-> FALSE],
     [githubToken |-> TRUE, openaiKey |-> FALSE],
     [githubToken |-> FALSE, openaiKey |-> TRUE]}

\* metadata = {}
EmptyMetadata ==
    [description |-> <<>>, repository |-> <<>>, lastPublish |-> NoDate, dependencies |-> {}]

\* downloadStats = {}
EmptyDownloadStats == [lastDay |-> <<>>, lastWeek |-> <<>>, lastMonth |-> <<>>]

\* The registry's document for a package.
RegistryPayload(pkg) ==
    CASE pkg.name = "lodash" ->
            [description |-> <<"utility library">>,
             repository |-> <<"https://github.com/lodash/lodash">>,
             lastPublish |-> DateAt(0 - 800), dependencies |-> {}]
      [] pkg.name = "flask" ->
            [description |-> <<"web framework">>,
             repository |-> <<"https://gitlab.com/pallets/flask">>,
             lastPublish |-> DateAt(0 - 10), dependencies |-> 1..60]
      [] OTHER ->
            [description |-> <<"a package">>, repository |-> <<>>,
             lastPublish |-> DateAt(0 - 400), dependencies |-> 1..21]

\* The three download windows of the npm downloads API, and pypistats' answer.
DownloadPayload(pkg) ==
    IF pkg.name = "lodash"
    THEN [lastDay |-> 40000, lastWeek |-> 300000, lastMonth |-> 1000001]
    ELSE [lastDay |-> 0, lastWeek |-> 10, lastMonth |-> 1001]

\* Which of the three npm windows (day, week, month) answer.
WindowOutcomes == {<<FALSE, FALSE, FALSE>>, <<TRUE, TRUE, TRUE>>}

\* The repository document of the GitHub API; topics may be any JSON value.
RepoPayloads ==
    {[stargazers_count |-> 10001, pushed_at |-> DateAt(0 - 5), topicsIsArray |-> TRUE],
     [stargazers_count |-> 10001, pushed_at |-> DateAt(0 - 5), topicsIsArray |-> FALSE]}

\* securityVulnerabilities.nodes of the GitHub advisory query.
AdvisoryPayload(pkg) ==
    IF pkg.name = "lodash"
    THEN <<[ghsaId |-> "GHSA-1", severity |-> <<"HIGH">>, summary |-> "from A"]>>
    ELSE <<>>

\* vulns of the OSV query.
OsvPayload(pkg) ==
    IF pkg.name = "lodash"
    THEN <<[id |-> "GHSA-1", tag |-> <<>>, score |-> <<5>>, summary |-> "from B"],
           [id |-> "OSV-2", tag |-> <<"CRITICAL">>, score |-> <<>>, summary |-> "from B"]>>
    ELSE <<>>

-----------------------------------------------------------------------------
(* The fetchers: each maps the upstream answer (absent on failure) to its  *)
(* result, and never throws.                                               *)

\* fetchNpmPackageData
NpmPackageData(data) == IF data = <<>> THEN EmptyMetadata ELSE data[1]

\* fetchPypiPackageData: no dependency map in its result.
PypiPackageData(data) ==
    IF data = <<>> THEN EmptyMetadata ELSE [data[1] EXCEPT !.dependencies = {}]

\* fetchDockerImageData: neither repository nor dependency map.
DockerImageData(data) ==
    IF data = <<>> THEN EmptyMetadata
    ELSE [data[1] EXCEPT !.repository = <<>>, !.dependencies = {}]

\* x?.downloads || 0
DownloadsOrZero(data) == IF data = <<>> THEN <<0>> ELSE data

\* safeJsonParse: null for a null response, a status outside 2xx, or a body
\* that does not decode.
SafeJsonParse(response) ==
    IF response.kind = "null" \/ ~response.ok THEN <<>> ELSE response.body

\* One request for all three windows, as PyPI has it: nothing without all.
NpmDownloadStatsAllOrNothing(dayData, weekData, monthData) ==
    IF dayData = <<>> \/ weekData = <<>> \/ monthData = <<>>
    THEN [lastDay |-> <<0>>, lastWeek |-> <<0>>, lastMonth |-> <<0>>]
    ELSE [lastDay |-> dayData, lastWeek |-> weekData, lastMonth |-> monthData]

\* fetchNpmDownloadStats: three requests joined, each window on its own.
NpmDownloadStats(dayData, weekData, monthData) ==
    [lastDay   |-> DownloadsOrZero(dayData),
     lastWeek  |-> DownloadsOrZero(weekData),
     lastMonth |-> DownloadsOrZero(monthData)]

\* fetchPypiDownloadStats: one request for all three windows.
PypiDownloadStats(data) ==
    IF data = <<>> THEN EmptyDownloadStats
    ELSE [lastDay   |-> <<data[1].lastDay>>,
          lastWeek  |-> <<data[1].lastWeek>>,
          lastMonth |-> <<data[1].lastMonth>>]

\* repoUrl.match(/github\.com[\/:]([^\/]+)\/([^\/\.]+)/)
GithubUrls == {"https://github.com/lodash/lodash"}

\* fetchGitHubStats: null without a match or without the repository document.
GitHubStats(repoData) ==
    IF repoData = <<>> THEN <<>>
    ELSE <<[stars |-> repoData[1].stargazers_count,
            lastCommit |-> repoData[1].pushed_at,
            topicsIsArray |-> repoData[1].topicsIsArray]>>

\* String.prototype.toLowerCase on the severity strings the sources use.
ToLowerCase(str) ==
    CASE str = "CRITICAL" -> "critical"
      [] str = "HIGH" -> "high"
      [] str = "MODERATE" -> "moderate"
      [] str = "MEDIUM" -> "medium"
      [] str = "LOW" -> "low"
      [] OTHER -> str

\* fetchGitHubAdvisories: the mapping of one node.
AdvisoryVulnerability(node) ==
    [id |-> node.ghsaId,
     severity |-> IF node.severity = <<>> THEN "medium" ELSE ToLowerCase(node.severity[1]),
     title |-> node.summary]

\* fetchOSVVulnerabilities: the mapping of one record.
OsvVulnerability(vuln) ==
    [id |-> vuln.id,
     severity |-> IF vuln.tag # <<>> THEN ToLowerCase(vuln.tag[1])
                  ELSE IF vuln.score # <<>> /\ vuln.score[1] # 0
                       THEN IF vuln.score[1] >= 9 THEN "critical"
                            ELSE IF vuln.score[1] >= 7 THEN "high"
                            ELSE IF vuln.score[1] >= 4 THEN "medium"
                            ELSE "low"
                  ELSE "medium",
     title |-> vuln.summary]

\* fetchGitHubAdvisories: [] without a token, outside npm and python, or
\* without an answer.
GitHubAdvisories(pkg, nodes) ==
    IF ~env.githubToken \/ pkg.ecosystem \notin {"npm", "python"} \/ nodes = <<>>
    THEN <<>>
    ELSE [k \in DOMAIN nodes[1] |-> AdvisoryVulnerability(nodes[1][k])]

\* fetchOSVVulnerabilities: the first ten records, [] without an answer.
OSVVulnerabilities(vulns) ==
    IF vulns = <<>> THEN <<>>
    ELSE [k \in 1..Min(10, Len(vulns[1])) |-> OsvVulnerability(vulns[1][k])]

\* Whether list holds an entry with this id.
HasId(list, id) == \E k \in DOMAIN list : list[k].id = id

\* The loop without the seenIds test.
PushUnseenKeepingAll(list, more) == list \o more

\* The loop "if (!seenIds.has(vuln.id)) { seenIds.add(vuln.id); push }".
RECURSIVE PushUnseen(_, _)
PushUnseen(list, more) ==
    IF more = <<>> THEN list
    ELSE PushUnseen(IF HasId(list, Head(more).id) THEN list ELSE Append(list, Head(more)),
                    Tail(more))

\* FALLBACK_VULNERABILITIES, an object literal.
FallbackTable ==
    [name \in {"lodash", "express", "django", "requests", "nginx"} |->
        CASE name = "lodash"   -> <<[id |-> "CVE-2021-23337", severity |-> "high", title |-> "Command Injection"]>>
          [] name = "express"  -> <<[id |-> "CVE-2022-24999", severity |-> "medium", title |-> "Open Redirect"]>>
          [] name = "django"   -> <<[id |-> "CVE-2023-23969", severity |-> "critical", title |-> "SQL Injection"]>>
          [] name = "requests" -> <<[id |-> "CVE-2023-32681", severity |-> "medium", title |-> "Unintended Proxy Authentication"]>>
          [] name = "nginx"    -> <<[id |-> "CVE-2021-23017", severity |-> "high", title |-> "Off-by-one Buffer Overflow"]>>]

\* Property names every object literal inherits from Object.prototype: the
\* lookup FALLBACK_VULNERABILITIES[name] yields a function or an object for
\* them, which is truthy and is no array.
InheritedKeys == {"constructor", "toString", "valueOf", "hasOwnProperty", "__proto__"}

\* What fetchVulnerabilities returns: a list, or a value that is no list.
ListValue(items) == [isList |-> TRUE, items |-> items]

NotAList == [isList |-> FALSE, items |-> <<>>]

FetchVulnerabilitiesNoFallback(pkg, nodes, vulns) ==
    ListValue(PushUnseen(PushUnseen(<<>>, GitHubAdvisories(pkg, nodes)),
                         OSVVulnerabilities(vulns)))

\* fetchVulnerabilities
FetchVulnerabilities(pkg, nodes, vulns) ==
    LET merged == PushUnseen(PushUnseen(<<>>, GitHubAdvisories(pkg, nodes)),
                             OSVVulnerabilities(vulns))
    IN  IF merged = <<>> /\ pkg.name \in DOMAIN FallbackTable
            THEN ListValue(FallbackTable[pkg.name])
        ELSE IF merged = <<>> /\ pkg.name \in InheritedKeys
            THEN NotAList
        ELSE ListValue(merged)

\* generateAIDescription: the generated text, else the description, else
\* the placeholder.
AIDescription(metadata, content) ==
    IF env.openaiKey /\ content # <<>> THEN content[1]
    ELSE IF metadata.description # <<>> THEN metadata.description[1]
    ELSE "No description available"

-----------------------------------------------------------------------------
(* scanPackages *)

NoAnswers ==
    [meta |-> "none", downloads |-> <<>>, github |-> "none", repo |-> <<>>,
     advisories |-> "none", osv |-> "none", ai |-> "none"]

FreshLocals ==
    [metadata |-> EmptyMetadata, downloadStats |-> EmptyDownloadStats,
     githubStats |-> <<>>, vulnerabilities |-> ListValue(<<>>),
     score |-> <<>>, asked |-> NoAnswers]

\* An upstream answer: the payload if the fetch succeeded, else null.
Answer(ok, payload) == IF ok THEN <<payload>> ELSE <<>>

Tag(ok) == IF ok THEN "ok" ELSE "fail"

VulnIdle ==
    /\ vPkg = PackageInfoOf("", "npm")
    /\ vNodes = <<>>
    /\ vVulns = <<>>
    /\ vCall = <<>>

RetryIdle ==
    /\ fwrArgs = [retries |-> 0, timeout |-> 0]
    /\ attempt = 0
    /\ fwrPc = "idle"
    /\ fwrLog = <<>>
    /\ fwrDelays = <<>>
    /\ fwrRet = <<>>

RouteIdle ==
    /\ rtRoute = "none"
    /\ rtAnalyses = <<>>
    /\ rtPc = "idle"
    /\ rtResponse = <<>>
    /\ savePc = "unstarted"
    /\ saveOutcome = "none"
    /\ saveAttempt = 0
    /\ ewrArgs = [retries |-> 0, delayMs |-> 0]
    /\ saveLog = <<>>
    /\ saveWaits = <<>>
    /\ scansTable = <<>>

DownloadsIdle ==
    /\ dlRequests = <<>>
    /\ dlOrder = <<>>
    /\ dlRet = <<>>

NoEvent == [key |-> "none", from |-> 0 - 1, called |-> <<>>]

SearchIdle ==
    /\ query = ""
    /\ psEcosystem = "npm"
    /\ suggestions = <<>>
    /\ showSuggestions = FALSE
    /\ selectedIndex = 0 - 1
    /\ debounce = <<>>
    /\ searches = {}
    /\ lastEvent = NoEvent

TimeoutIdle ==
    /\ ftClock = 0
    /\ ftCalls = <<>>

GithubIdle ==
    /\ ghResponses = <<>>
    /\ ghRet = <<>>

HistoryIdle ==
    /\ hsScans = {}
    /\ hsLast = <<>>

AuxIdle == VulnIdle /\ RetryIdle /\ RouteIdle /\ DownloadsIdle /\ SearchIdle /\ TimeoutIdle /\ GithubIdle /\ HistoryIdle

ScanIdle ==
    /\ env = [githubToken |-> FALSE, openaiKey |-> FALSE]
    /\ packages = <<>>
    /\ i = 1
    /\ pc = "idle"
    /\ locals = FreshLocals
    /\ results = <<>>
    /\ answers = <<>>

InitScan ==
    /\ now = 0
    /\ args = ArgsOf(<<>>, NoDate, 0, <<>>, <<>>)
    /\ ret = <<>>
    /\ retAt = 0
    /\ raw = <<>>
    /\ first = <<>>
    /\ AuxIdle
    /\ env \in EnvProbe
    /\ packages \in SeqsUpTo(PackageProbe, MaxPackages)
    /\ i = 1
    /\ pc = "loop"
    /\ locals = FreshLocals
    /\ results = <<>>
    /\ answers = <<>>

pkg == packages[i]

ScoreIdle == UNCHANGED <<now, args, ret, retAt, raw, first, auxVars>>

\* The loop head: return after the last package, else enter the try block
\* with fresh bindings.
LoopHeadKeepingLocals ==
    /\ pc = "loop"
    /\ IF i > Len(packages)
       THEN pc' = "done" /\ UNCHANGED locals
       ELSE pc' = "metadata" /\ locals' = [locals EXCEPT !.asked = NoAnswers]
    /\ UNCHANGED <<env, packages, i, results, answers>>
    /\ ScoreIdle

LoopHead ==
    /\ pc = "loop"
    /\ IF i > Len(packages)
       THEN pc' = "done" /\ UNCHANGED locals
       ELSE pc' = "metadata" /\ locals' = FreshLocals
    /\ UNCHANGED <<env, packages, i, results, answers>>
    /\ ScoreIdle

\* Going from the metadata straight to the vulnerabilities.
PhaseAfterMetadataSkippingStats(p) == "vulnerabilities"

\* The ecosystem branches: download stats for npm and python, none for
\* docker.
PhaseAfterMetadata(p) == IF p.ecosystem = "docker" THEN "github" ELSE "downloads"

\* metadata = await fetch<Ecosystem>PackageData(...)
FetchMetadata ==
    /\ pc = "metadata"
    /\ \E ok \in BOOLEAN :
        LET data == Answer(ok, RegistryPayload(pkg))
            m == CASE pkg.ecosystem = "npm" -> NpmPackageData(data)
                   [] pkg.ecosystem = "python" -> PypiPackageData(data)
                   [] pkg.ecosystem = "docker" -> DockerImageData(data)
        IN  locals' = [locals EXCEPT !.metadata = m, !.asked.meta = Tag(ok)]
    /\ pc' = PhaseAfterMetadata(pkg)
    /\ UNCHANGED <<env, packages, i, results, answers>>
    /\ ScoreIdle

\* downloadStats = await fetch<Ecosystem>DownloadStats(pkg.name)
FetchDownloadStats ==
    /\ pc = "downloads"
    /\ \/ /\ pkg.ecosystem = "npm"
          /\ \E w \in WindowOutcomes :
              LET d == DownloadPayload(pkg)
              IN  locals' = [locals EXCEPT
                      !.downloadStats = NpmDownloadStats(Answer(w[1], d.lastDay),
                                                         Answer(w[2], d.lastWeek),
                                                         Answer(w[3], d.lastMonth)),
                      !.asked.downloads = w]
       \/ /\ pkg.ecosystem = "python"
          /\ \E ok \in BOOLEAN :
              locals' = [locals EXCEPT
                  !.downloadStats = PypiDownloadStats(Answer(ok, DownloadPayload(pkg))),
                  !.asked.downloads = <<ok>>]
    /\ pc' = "github"
    /\ UNCHANGED <<env, packages, i, results, answers>>
    /\ ScoreIdle

\* The catch block: a degraded analysis for packages[i].
Degraded(p) ==
    [package |-> p,
     vulnerabilities |-> <<>>,
     trustScore |-> 0,
     trustScoreBreakdown |-> [security |-> 0, maintenance |-> 0,
                              popularity |-> 0, dependencies |-> 0],
     metadata |-> [EmptyMetadata EXCEPT !.description = <<"Error during analysis">>],
     githubStats |-> <<>>,
     downloadStats |-> EmptyDownloadStats,
     aiDescription |-> "Unable to generate description due to analysis error"]

CatchWithoutPush(asked) ==
    /\ answers' = Append(answers, [asked EXCEPT !.ai = "threw"])
    /\ i' = i + 1
    /\ pc' = "loop"
    /\ UNCHANGED results

Catch(asked) ==
    /\ results' = Append(results, Degraded(pkg))
    /\ answers' = Append(answers, [asked EXCEPT !.ai = "threw"])
    /\ i' = i + 1
    /\ pc' = "loop"

\* if (metadata?.repository) { githubStats = await fetchGitHubStats(...);
\*   if (githubStats) metadata.hasSecurity = githubStats.topics?.includes(...) }
FetchGitHubStats ==
    /\ pc = "github"
    /\ IF locals.metadata.repository = <<>>
       THEN /\ pc' = "vulnerabilities"
            /\ UNCHANGED <<locals, i, results, answers>>
       ELSE IF locals.metadata.repository[1] \notin GithubUrls
       THEN /\ pc' = "vulnerabilities"
            /\ locals' = [locals EXCEPT !.asked.github = "nomatch"]
            /\ UNCHANGED <<i, results, answers>>
       ELSE \/ /\ locals' = [locals EXCEPT !.asked.github = "fail"]
               /\ pc' = "vulnerabilities"
               /\ UNCHANGED <<i, results, answers>>
            \/ \E repoData \in RepoPayloads :
                LET asked == [locals.asked EXCEPT !.github = "ok", !.repo = <<repoData>>]
                IN  IF repoData.topicsIsArray
                    THEN /\ locals' = [locals EXCEPT !.githubStats = GitHubStats(<<repoData>>),
                                                     !.asked = asked]
                         /\ pc' = "vulnerabilities"
                         /\ UNCHANGED <<i, results, answers>>
                    ELSE \* topics.includes is not a function
                         /\ Catch(asked)
                         /\ UNCHANGED locals
    /\ UNCHANGED <<env, packages>>
    /\ ScoreIdle

\* vulnerabilities = await fetchVulnerabilities(pkg)
FetchVulns ==
    /\ pc = "vulnerabilities"
    /\ \E okA \in (IF env.githubToken /\ pkg.ecosystem \in {"npm", "python"}
                   THEN BOOLEAN ELSE {FALSE}), okB \in BOOLEAN :
        locals' = [locals EXCEPT
            !.vulnerabilities = FetchVulnerabilities(pkg, Answer(okA, AdvisoryPayload(pkg)),
                                                     Answer(okB, OsvPayload(pkg))),
            !.asked.advisories =
                IF env.githubToken /\ pkg.ecosystem \in {"npm", "python"}
                THEN Tag(okA) ELSE "none",
            !.asked.osv = Tag(okB)]
    /\ pc' = "score"
    /\ UNCHANGED <<env, packages, i, results, answers>>
    /\ ScoreIdle

\* { score, breakdown } = calculateTrustScore(...): vulnerabilities.filter
\* throws a TypeError on a value that is no array.
Score ==
    /\ pc = "score"
    /\ IF locals.vulnerabilities.isList
       THEN /\ locals' = [locals EXCEPT !.score =
                   <<CalculateTrustScore(locals.vulnerabilities.items, locals.metadata,
                                         locals.metadata.dependencies, locals.githubStats,
                                         locals.downloadStats)>>]
            /\ pc' = "describe"
            /\ UNCHANGED <<i, results, answers>>
       ELSE /\ Catch(locals.asked)
            /\ UNCHANGED locals
    /\ UNCHANGED <<env, packages>>
    /\ ScoreIdle

Analysis(p, l, aiDescription) ==
    [package |-> p,
     vulnerabilities |-> l.vulnerabilities.items,
     trustScore |-> l.score[1].score,
     trustScoreBreakdown |-> l.score[1].breakdown,
     metadata |-> l.metadata,
     githubStats |-> l.githubStats,
     downloadStats |-> l.downloadStats,
     aiDescription |-> aiDescription]

\* aiDescription = await generateAIDescription(...); results.push({...})
DescribeAndPush ==
    /\ pc = "describe"
    /\ \E ok \in (IF env.openaiKey THEN BOOLEAN ELSE {FALSE}) :
        /\ results' = Append(results,
               Analysis(pkg, locals, AIDescription(locals.metadata,
                                                   Answer(ok, "generated text"))))
        /\ answers' = Append(answers,
               [locals.asked EXCEPT !.ai = IF env.openaiKey THEN Tag(ok) ELSE "none"])
    /\ i' = i + 1
    /\ pc' = "loop"
    /\ UNCHANGED <<env, packages, locals>>
    /\ ScoreIdle

NextScan ==
    \/ LoopHead
    \/ FetchMetadata
    \/ FetchDownloadStats
    \/ FetchGitHubStats
    \/ FetchVulns
    \/ Score
    \/ DescribeAndPush

SpecScan == InitScan /\ [][NextScan]_vars

-----------------------------------------------------------------------------
(* The calculator under test: any inputs, invoked at any times *)

InitScore ==
    /\ now = 0
    /\ args \in ScoreInputs
    /\ ret = <<>>
    /\ retAt = 0
    /\ raw = <<>>
    /\ first = <<>>
    /\ ScanIdle
    /\ AuxIdle

\* One invocation of calculateTrustScore(args) at the current time.
Calculate ==
    /\ ret' = <<CalculateTrustScore(args.vulnerabilities, args.metadata,
                                    args.dependencies, args.githubStats,
                                    args.downloadStats)>>
    /\ raw' = <<RawScores(args.vulnerabilities, args.metadata, args.dependencies,
                          args.githubStats, args.downloadStats)>>
    /\ retAt' = now
    /\ first' = IF first = <<>> THEN <<[at |-> now, ret |-> ret'[1]]>> ELSE first
    /\ UNCHANGED <<now, args>>
    /\ UNCHANGED scanVars
    /\ UNCHANGED auxVars

\* A day passes.
Tick ==
    /\ now < MaxTicks
    /\ now' = now + 1
    /\ UNCHANGED scoreVars
    /\ UNCHANGED scanVars
    /\ UNCHANGED auxVars

NextScore == Calculate \/ Tick

SpecScore == InitScore /\ [][NextScore]_vars

-----------------------------------------------------------------------------
(* fetchVulnerabilities under test: any package, any answers of the two    *)
(* sources                                                                 *)

MaxAdvisories == 2

MaxOsv == 2

\* Names in and outside the fallback table, in another case and another
\* ecosystem, and a property every object inherits.
VulnPackageProbe ==
    PackageProbe \cup {PackageInfoOf("Lodash", "npm"), PackageInfoOf("lodash", "python")}

AdvisoryNode(id, severity) == [ghsaId |-> id, severity |-> severity, summary |-> "from A"]

OsvRecord(id, tag, score) == [id |-> id, tag |-> tag, score |-> score, summary |-> "from B"]

\* Answers that differ in their ids: repeats within a source and across.
MergeNodes == {AdvisoryNode(id, <<"HIGH">>) : id \in {"GHSA-1", "GHSA-2"}}

MergeRecords == {OsvRecord(id, <<"LOW">>, <<>>) : id \in {"GHSA-1", "OSV-2"}}

\* Answers that differ in the severity the source supplies.
SeverityNodes == {AdvisoryNode("GHSA-1", s) : s \in {<<>>, <<"CRITICAL">>, <<"MODERATE">>}}

ScoreProbe == {0, 3, 4, 6, 7, 8, 9, 10}

SeverityRecords ==
    {OsvRecord("OSV-2", <<"MODERATE">>, <<9>>), OsvRecord("OSV-2", <<"HIGH">>, <<>>),
     OsvRecord("OSV-2", <<>>, <<>>)}
        \cup {OsvRecord("OSV-2", <<>>, <<s>>) : s \in ScoreProbe}

VulnAnswers ==
    {[nodes |-> a, vulns |-> b] :
        a \in {<<>>} \cup {<<x>> : x \in SeqsUpTo(MergeNodes, MaxAdvisories)},
        b \in {<<>>} \cup {<<x>> : x \in SeqsUpTo(MergeRecords, MaxOsv)}}
    \cup
    {[nodes |-> a, vulns |-> b] :
        a \in {<<>>} \cup {<<<<x>>>> : x \in SeverityNodes},
        b \in {<<>>} \cup {<<<<x>>>> : x \in SeverityRecords}}

ScoreParked ==
    /\ now = 0
    /\ args = ArgsOf(<<>>, NoDate, 0, <<>>, <<>>)
    /\ ret = <<>>
    /\ retAt = 0
    /\ raw = <<>>
    /\ first = <<>>

VulnRest == <<now, scoreVars, scanVars, retryVars, routeVars, dlVars, searchVars, timeoutVars, githubVars, historyVars>>

VulnRestInit == RetryIdle /\ RouteIdle /\ DownloadsIdle /\ SearchIdle /\ TimeoutIdle /\ GithubIdle /\ HistoryIdle

InitVuln ==
    /\ ScoreParked
    /\ env \in EnvProbe
    /\ packages = <<>>
    /\ i = 1
    /\ pc = "idle"
    /\ locals = FreshLocals
    /\ results = <<>>
    /\ answers = <<>>
    /\ vPkg \in VulnPackageProbe
    /\ \E a \in VulnAnswers : vNodes = a.nodes /\ vVulns = a.vulns
    /\ vCall = <<>>
    /\ VulnRestInit

\* One invocation of fetchVulnerabilities(vPkg).
CallFetchVulnerabilities ==
    /\ vCall = <<>>
    /\ vCall' = <<[githubVulns |-> GitHubAdvisories(vPkg, vNodes),
                   osvVulns |-> OSVVulnerabilities(vVulns),
                   returned |-> FetchVulnerabilities(vPkg, vNodes, vVulns)]>>
    /\ UNCHANGED <<vPkg, vNodes, vVulns>>
    /\ UNCHANGED VulnRest

NextVuln == CallFetchVulnerabilities

SpecVuln == InitVuln /\ [][NextVuln]_vars

-----------------------------------------------------------------------------
(* fetchWithRetry under test: any retries, any outcome of each attempt     *)

MaxRetries == 3

\* fetch resolves, with any status, or rejects: a network error, or the
\* abort of fetchWithTimeout.
Resolved == {"2xx", "non-2xx"}

Rejected == {"network error", "aborted"}

\* The timeouts the callers pass, in ms.
TimeoutProbe == {5000, 15000, 20000}

Null == [kind |-> "null", status |-> "", attempt |-> 0]

ResponseOf(status, n) == [kind |-> "response", status |-> status, attempt |-> n]

\* The catch block on the last attempt, which would leave the exception
\* to the caller.
CatchLastRethrow == [pc |-> "raised", ret |-> <<>>]

\* The catch block on the last attempt: return null.
CatchLast == [pc |-> "done", ret |-> <<Null>>]

RetryRest == <<now, scoreVars, scanVars, vulnVars, routeVars, dlVars, searchVars, timeoutVars, githubVars, historyVars>>

RetryRestInit == VulnIdle /\ RouteIdle /\ DownloadsIdle /\ SearchIdle /\ TimeoutIdle /\ GithubIdle /\ HistoryIdle

InitRetry ==
    /\ ScoreParked
    /\ ScanIdle
    /\ RetryRestInit
    /\ fwrArgs \in [retries : 0..MaxRetries, timeout : TimeoutProbe]
    /\ attempt = 0
    /\ fwrPc = "loop"
    /\ fwrLog = <<>>
    /\ fwrDelays = <<>>
    /\ fwrRet = <<>>

RetryOthersIdle == UNCHANGED RetryRest

\* try: fetchWithTimeout resolves and its response is returned.
AttemptResolves ==
    /\ fwrPc = "loop"
    /\ attempt < fwrArgs.retries
    /\ \E status \in Resolved :
           /\ fwrLog' = Append(fwrLog, status)
           /\ fwrRet' = <<ResponseOf(status, attempt + 1)>>
    /\ fwrPc' = "done"
    /\ UNCHANGED <<fwrArgs, attempt, fwrDelays>>
    /\ RetryOthersIdle

\* catch: fetchWithTimeout rejects; null on the last attempt, else on to the
\* backoff.
AttemptRejects ==
    /\ fwrPc = "loop"
    /\ attempt < fwrArgs.retries
    /\ \E error \in Rejected : fwrLog' = Append(fwrLog, error)
    /\ IF attempt = fwrArgs.retries - 1
           THEN fwrPc' = CatchLast.pc /\ fwrRet' = CatchLast.ret
           ELSE fwrPc' = "backoff" /\ fwrRet' = fwrRet
    /\ UNCHANGED <<fwrArgs, attempt, fwrDelays>>
    /\ RetryOthersIdle

\* The sleep of 1000 * 2^attempt ms, then attempt++.
Backoff ==
    /\ fwrPc = "backoff"
    /\ fwrDelays' = Append(fwrDelays, 1000 * 2^attempt)
    /\ attempt' = attempt + 1
    /\ fwrPc' = "loop"
    /\ UNCHANGED <<fwrArgs, fwrLog, fwrRet>>
    /\ RetryOthersIdle

\* The loop ends without an attempt left: return null.
LoopExit ==
    /\ fwrPc = "loop"
    /\ ~(attempt < fwrArgs.retries)
    /\ fwrRet' = <<Null>>
    /\ fwrPc' = "done"
    /\ UNCHANGED <<fwrArgs, attempt, fwrLog, fwrDelays>>
    /\ RetryOthersIdle

NextRetry == AttemptResolves \/ AttemptRejects \/ Backoff \/ LoopExit

SpecRetry == InitRetry /\ [][NextRetry]_vars

-----------------------------------------------------------------------------
(* The scan routes (POST /api/scan, POST /api/scan-package) from the point *)
(* where scanPackages has returned: the handler and the background save    *)

\* The retries argument of executeWithRetry in saveScanToDatabase.
SaveRetries == 3

\* The delayMs argument of executeWithRetry in saveScanToDatabase.
SaveDelayMs == 1000

\* const delay = delayMs * Math.pow(2, attempt - 1), with the delay kept
\* the same for every attempt
SaveDelayConstant(delayMs, n) == delayMs

\* const delay = delayMs * Math.pow(2, attempt - 1)
SaveDelay(delayMs, n) == delayMs * 2^(n - 1)

\* What scanPackages returned: per package, its name and vulnerabilities.
AnalysisOf(name, sevs) == [name |-> name, vulnerabilities |-> VulnList(sevs)]

AnalysesProbe ==
    {<<AnalysisOf("flask", <<>>)>>,
     <<AnalysisOf("lodash", <<"critical", "moderate">>)>>,
     <<AnalysisOf("nginx", <<"low", "medium">>)>>,
     <<AnalysisOf("lodash", <<"high">>), AnalysisOf("flask", <<>>)>>,
     <<AnalysisOf("flask", <<>>), AnalysisOf("nginx", <<"low">>)>>}

\* packageAnalyses.flatMap(p => p.vulnerabilities || [])
RECURSIVE FlatVulnerabilities(_)
FlatVulnerabilities(analyses) ==
    IF analyses = <<>> THEN <<>>
    ELSE Head(analyses).vulnerabilities \o FlatVulnerabilities(Tail(analyses))

\* scanResult as each handler builds it (ids and timestamps left out).
ScanResultOf(route, analyses) ==
    LET counted == IF route = "scan" THEN analyses ELSE <<analyses[1]>>
        all == FlatVulnerabilities(counted)
    IN  [totalPackages |-> Len(counted),
         vulnerablePackages |->
             Cardinality({k \in DOMAIN counted : Len(counted[k].vulnerabilities) > 0}),
         totalVulnerabilities |-> Len(all),
         criticalCount |-> CountSeverity(all, "critical"),
         highCount |-> CountSeverity(all, "high"),
         mediumCount |-> CountSeverity(all, "medium"),
         lowCount |-> CountSeverity(all, "low"),
         packages |-> counted]

\* "await saveToDbAsync()" in place of "void saveToDbAsync()".
SaveAwaitedByHandler == TRUE

\* Whether the handler waits for the promise of saveToDbAsync: it is
\* discarded with "void".
SaveAwaited == FALSE

\* The continuations of saveToDbAsync run once the handler's synchronous
\* code is over.
SaveRuns == rtPc = "responded" \/ (SaveAwaited /\ rtPc = "spawned")

RouteRest == <<now, scoreVars, scanVars, vulnVars, retryVars, dlVars, searchVars, timeoutVars, githubVars, historyVars>>

RouteRestInit == VulnIdle /\ RetryIdle /\ DownloadsIdle /\ SearchIdle /\ TimeoutIdle /\ GithubIdle /\ HistoryIdle

InitRoute ==
    /\ ScoreParked
    /\ ScanIdle
    /\ RouteRestInit
    /\ rtRoute \in {"scan", "scan-package"}
    /\ rtAnalyses \in {a \in AnalysesProbe : rtRoute = "scan-package" => Len(a) = 1}
    /\ rtPc = "built"
    /\ rtResponse = <<>>
    /\ savePc = "unstarted"
    /\ saveOutcome = "none"
    /\ saveAttempt = 0
    /\ ewrArgs = [retries |-> 0, delayMs |-> 0]
    /\ saveLog = <<>>
    /\ saveWaits = <<>>
    /\ scansTable = <<>>

\* saveToDbAsync() is called: it runs up to its first await.
Spawn ==
    /\ rtPc = "built"
    /\ rtPc' = "spawned"
    /\ savePc' = "headers"
    /\ UNCHANGED <<rtRoute, rtAnalyses, rtResponse, saveOutcome, saveAttempt, ewrArgs, saveLog, saveWaits, scansTable>>
    /\ UNCHANGED RouteRest

\* return NextResponse.json(scanResult)
Respond ==
    /\ rtPc = "spawned"
    /\ SaveAwaited => savePc = "done"
    /\ rtResponse' = <<[status |-> 200, body |-> ScanResultOf(rtRoute, rtAnalyses)]>>
    /\ rtPc' = "responded"
    /\ UNCHANGED <<rtRoute, rtAnalyses, savePc, saveOutcome, saveAttempt, ewrArgs, saveLog, saveWaits, scansTable>>
    /\ UNCHANGED RouteRest

\* How saveToDbAsync ends.
SaveEnds(outcome) ==
    /\ savePc' = "done"
    /\ saveOutcome' = outcome

\* await headers(): resolves, or throws into the catch of saveToDbAsync.
AwaitHeaders ==
    /\ SaveRuns
    /\ savePc = "headers"
    /\ \/ savePc' = "session" /\ saveOutcome' = saveOutcome
       \/ SaveEnds("error caught")
    /\ UNCHANGED <<rtRoute, rtAnalyses, rtPc, rtResponse, saveAttempt, ewrArgs, saveLog, saveWaits, scansTable>>
    /\ UNCHANGED RouteRest

\* getSessionSafely: a session with a user, a session without one, the 5 s
\* timer winning the race, or getSession rejecting.
GetSession ==
    /\ SaveRuns
    /\ savePc = "session"
    /\ \/ savePc' = "dbcheck" /\ saveOutcome' = saveOutcome
       \/ SaveEnds("no session")
       \/ SaveEnds("session timeout")
       \/ SaveEnds("session error")
    /\ UNCHANGED <<rtRoute, rtAnalyses, rtPc, rtResponse, saveAttempt, ewrArgs, saveLog, saveWaits, scansTable>>
    /\ UNCHANGED RouteRest

\* isDatabaseAvailable(3000), then the call executeWithRetry(..., 3, 1000)
CheckDatabase ==
    /\ SaveRuns
    /\ savePc = "dbcheck"
    /\ \/ /\ savePc' = "retryloop"
          /\ saveOutcome' = saveOutcome
          /\ saveAttempt' = 1
          /\ ewrArgs' = [retries |-> SaveRetries, delayMs |-> SaveDelayMs]
       \/ SaveEnds("db unavailable") /\ UNCHANGED <<saveAttempt, ewrArgs>>
    /\ UNCHANGED <<rtRoute, rtAnalyses, rtPc, rtResponse, saveLog, saveWaits, scansTable>>
    /\ UNCHANGED RouteRest

\* executeWithRetry: for (let attempt = 1; attempt <= retries; attempt++),
\* the test of the loop; "return null" after it.
RetryLoopHead ==
    /\ SaveRuns
    /\ savePc = "retryloop"
    /\ IF saveAttempt <= ewrArgs.retries
           THEN savePc' = "insert" /\ saveOutcome' = saveOutcome
           ELSE SaveEnds("insert failed")
    /\ UNCHANGED <<rtRoute, rtAnalyses, rtPc, rtResponse, saveAttempt, ewrArgs, saveLog, saveWaits,
                   scansTable>>
    /\ UNCHANGED RouteRest

\* executeWithRetry: the operation of one attempt resolves and its result is
\* returned; the operation is the insert of the row.
InsertSucceeds ==
    /\ SaveRuns
    /\ savePc = "insert"
    /\ scansTable' = Append(scansTable, ScanResultOf(rtRoute, rtAnalyses))
    /\ saveLog' = Append(saveLog, "resolved")
    /\ SaveEnds("saved")
    /\ UNCHANGED <<rtRoute, rtAnalyses, rtPc, rtResponse, saveAttempt, ewrArgs, saveWaits>>
    /\ UNCHANGED RouteRest

\* executeWithRetry: the operation of one attempt throws; null after the
\* last attempt, else the backoff.
InsertFails ==
    /\ SaveRuns
    /\ savePc = "insert"
    /\ saveLog' = Append(saveLog, "rejected")
    /\ IF saveAttempt = ewrArgs.retries
           THEN SaveEnds("insert failed")
           ELSE savePc' = "backoff" /\ saveOutcome' = saveOutcome
    /\ UNCHANGED <<rtRoute, rtAnalyses, rtPc, rtResponse, saveAttempt, ewrArgs, saveWaits, scansTable>>
    /\ UNCHANGED RouteRest

\* executeWithRetry: the sleep between two attempts, then attempt++.
SaveBackoff ==
    /\ SaveRuns
    /\ savePc = "backoff"
    /\ saveWaits' = Append(saveWaits, SaveDelay(ewrArgs.delayMs, saveAttempt))
    /\ saveAttempt' = saveAttempt + 1
    /\ savePc' = "retryloop"
    /\ UNCHANGED <<rtRoute, rtAnalyses, rtPc, rtResponse, saveOutcome, ewrArgs, saveLog, scansTable>>
    /\ UNCHANGED RouteRest

\* The operation never settles (no timer bounds it): the save never ends.
InsertHangs ==
    /\ SaveRuns
    /\ savePc = "insert"
    /\ savePc' = "hung"
    /\ saveLog' = Append(saveLog, "pending")
    /\ UNCHANGED <<rtRoute, rtAnalyses, rtPc, rtResponse, saveOutcome, saveAttempt, ewrArgs, saveWaits,
                   scansTable>>
    /\ UNCHANGED RouteRest

NextRoute ==
    \/ Spawn
    \/ Respond
    \/ AwaitHeaders
    \/ GetSession
    \/ CheckDatabase
    \/ RetryLoopHead
    \/ InsertSucceeds
    \/ InsertFails
    \/ SaveBackoff
    \/ InsertHangs

SpecRoute == InitRoute /\ [][NextRoute]_vars

\* executeWithRetry under test: called with any retries and delayMs, by a
\* handler that has responded.
InitExec ==
    /\ ScoreParked
    /\ ScanIdle
    /\ RouteRestInit
    /\ rtRoute \in {"scan", "scan-package"}
    /\ rtAnalyses \in {a \in AnalysesProbe : rtRoute = "scan-package" => Len(a) = 1}
    /\ rtPc = "responded"
    /\ rtResponse = <<[status |-> 200, body |-> ScanResultOf(rtRoute, rtAnalyses)]>>
    /\ savePc = "retryloop"
    /\ saveOutcome = "none"
    /\ saveAttempt = 1
    /\ ewrArgs \in [retries : 0..MaxRetries, delayMs : {500, SaveDelayMs}]
    /\ saveLog = <<>>
    /\ saveWaits = <<>>
    /\ scansTable = <<>>

NextExec ==
    \/ RetryLoopHead
    \/ InsertSucceeds
    \/ InsertFails
    \/ SaveBackoff
    \/ InsertHangs

\* The event loop runs every continuation that is ready.
SpecExec == InitExec /\ [][NextExec]_vars /\ WF_vars(NextExec)

-----------------------------------------------------------------------------
(* fetchNpmDownloadStats under test: three requests in flight at once,     *)
(* settling in any order with any outcome                                  *)

Windows == {"lastDay", "lastWeek", "lastMonth"}

\* What the registry would report for each window.
WindowDownloads(w) ==
    CASE w = "lastDay" -> 7
      [] w = "lastWeek" -> 50
      [] w = "lastMonth" -> 200

\* How the request of window w may settle: fetchWithRetry gives null, or a
\* response outside 2xx, or a 2xx response whose body does not decode, or a
\* 2xx response with the count.
WindowResponses(w) ==
    {[kind |-> "null", ok |-> FALSE, body |-> <<>>],
     [kind |-> "response", ok |-> FALSE, body |-> <<WindowDownloads(w)>>],
     [kind |-> "response", ok |-> TRUE, body |-> <<>>],
     [kind |-> "response", ok |-> TRUE, body |-> <<WindowDownloads(w)>>]}

DownloadsRest == <<now, scoreVars, scanVars, vulnVars, retryVars, routeVars, searchVars, timeoutVars, githubVars, historyVars>>

DownloadsRestInit == VulnIdle /\ RetryIdle /\ RouteIdle /\ SearchIdle /\ TimeoutIdle /\ GithubIdle /\ HistoryIdle

\* The first Promise.all has issued the three requests.
InitDownloads ==
    /\ ScoreParked
    /\ ScanIdle
    /\ DownloadsRestInit
    /\ dlRequests = [w \in Windows |-> <<>>]
    /\ dlOrder = <<>>
    /\ dlRet = <<>>

\* One of the requests in flight settles.
SettleRequest ==
    /\ dlRet = <<>>
    /\ \E w \in Windows :
           /\ dlRequests[w] = <<>>
           /\ \E response \in WindowResponses(w) :
                  dlRequests' = [dlRequests EXCEPT ![w] = <<response>>]
           /\ dlOrder' = Append(dlOrder, w)
    /\ UNCHANGED dlRet
    /\ UNCHANGED DownloadsRest

\* Both Promise.all joins are through: parse the three and return.
JoinAndReturn ==
    /\ dlRet = <<>>
    /\ \A w \in Windows : dlRequests[w] # <<>>
    /\ dlRet' = <<NpmDownloadStats(SafeJsonParse(dlRequests["lastDay"][1]),
                                   SafeJsonParse(dlRequests["lastWeek"][1]),
                                   SafeJsonParse(dlRequests["lastMonth"][1]))>>
    /\ UNCHANGED <<dlRequests, dlOrder>>
    /\ UNCHANGED DownloadsRest

NextDownloads == SettleRequest \/ JoinAndReturn

SpecDownloads == InitDownloads /\ [][NextDownloads]_vars

-----------------------------------------------------------------------------
(* The PackageSearch component: its state, its event handlers, the         *)
(* debounced effect and the /api/search requests in flight                 *)

MaxInFlight == 2

\* What the user may type.
QueryProbe == {"", "r", "  ", "re"}

\* query.length
QueryLength(q) ==
    CASE q = "" -> 0
      [] q = "r" -> 1
      [] q \in {"  ", "re"} -> 2
      [] q = "re2" -> 3
      [] OTHER -> 5

\* query.trim()
Trim(q) ==
    IF q = "  " THEN "" ELSE q

\* What /api/search answers: for python the route adds the variations of
\* the query itself, whatever the query.
SearchResults(q, eco) ==
    IF eco = "npm"
    THEN CASE q = "re" -> <<"react", "re2">>
           [] q = "react" -> <<"react">>
           [] OTHER -> <<>>
    ELSE CASE q = "re" -> <<"re", "re2">>
           [] OTHER -> <<q>>

\* The success branch keeping the highlight.
IndexAfterUpdateKept(prev) == prev

\* setSelectedIndex(-1) after setSuggestions(data)
IndexAfterUpdate(prev) == 0 - 1

\* The cleanup and the body of the effect on [query, ecosystem]: the
\* pending timer is replaced.
Rearm(q, eco) == <<[query |-> q, ecosystem |-> eco]>>

Shown == showSuggestions /\ Len(suggestions) > 0

SearchRest == <<now, scoreVars, scanVars, vulnVars, retryVars, routeVars, dlVars, timeoutVars, githubVars, historyVars>>

SearchRestInit == VulnIdle /\ RetryIdle /\ RouteIdle /\ DownloadsIdle /\ TimeoutIdle /\ GithubIdle /\ HistoryIdle

InitSearch ==
    /\ ScoreParked
    /\ ScanIdle
    /\ SearchRestInit
    /\ query = ""
    /\ psEcosystem = "npm"
    /\ suggestions = <<>>
    /\ showSuggestions = FALSE
    /\ selectedIndex = 0 - 1
    /\ debounce = Rearm("", "npm")
    /\ searches = {}
    /\ lastEvent = NoEvent

\* onChange: setQuery(e.target.value)
Type ==
    /\ \E q \in QueryProbe \ {query} :
           /\ query' = q
           /\ debounce' = Rearm(q, psEcosystem)
    /\ lastEvent' = NoEvent
    /\ UNCHANGED <<psEcosystem, suggestions, showSuggestions, selectedIndex, searches>>
    /\ UNCHANGED SearchRest

\* onValueChange: setEcosystem(value)
SelectEcosystem ==
    /\ \E eco \in {"npm", "python"} \ {psEcosystem} :
           /\ psEcosystem' = eco
           /\ debounce' = Rearm(query, eco)
    /\ lastEvent' = NoEvent
    /\ UNCHANGED <<query, suggestions, showSuggestions, selectedIndex, searches>>
    /\ UNCHANGED SearchRest

\* The timer fires and fetchSuggestions runs up to its await: a query
\* shorter than 2 empties the list, any other issues the request.
DebounceFires ==
    /\ debounce # <<>>
    /\ debounce' = <<>>
    /\ IF QueryLength(debounce[1].query) < 2
           THEN /\ suggestions' = <<>>
                /\ showSuggestions' = FALSE
                /\ searches' = searches
           ELSE /\ Cardinality(searches \cup {debounce[1]}) <= MaxInFlight
                /\ searches' = searches \cup {debounce[1]}
                /\ UNCHANGED <<suggestions, showSuggestions>>
    /\ lastEvent' = NoEvent
    /\ UNCHANGED <<query, psEcosystem, selectedIndex>>
    /\ UNCHANGED SearchRest

\* A request in flight answers and its body decodes.
SearchSucceeds ==
    /\ \E s \in searches :
           /\ searches' = searches \ {s}
           /\ suggestions' = SearchResults(s.query, s.ecosystem)
           /\ showSuggestions' = (Len(SearchResults(s.query, s.ecosystem)) > 0)
    /\ selectedIndex' = IndexAfterUpdate(selectedIndex)
    /\ lastEvent' = NoEvent
    /\ UNCHANGED <<query, psEcosystem, debounce>>
    /\ UNCHANGED SearchRest

\* A request in flight fails, or its body does not decode: the catch.
SearchFails ==
    /\ \E s \in searches : searches' = searches \ {s}
    /\ suggestions' = <<>>
    /\ lastEvent' = NoEvent
    /\ UNCHANGED <<query, psEcosystem, showSuggestions, selectedIndex, debounce>>
    /\ UNCHANGED SearchRest

\* handleSelectSuggestion(suggestions[index]), as a key press or click.
SelectSuggestion(index, key) ==
    /\ query' = suggestions[index + 1]
    /\ debounce' = IF suggestions[index + 1] = query THEN debounce
                   ELSE Rearm(suggestions[index + 1], psEcosystem)
    /\ showSuggestions' = FALSE
    /\ selectedIndex' = 0 - 1
    /\ lastEvent' = [key |-> key, from |-> selectedIndex,
                     called |-> <<[name |-> suggestions[index + 1], ecosystem |-> psEcosystem]>>]
    /\ UNCHANGED <<psEcosystem, suggestions, searches>>

\* handleSearch(), as a key press or click.
Search(key) ==
    /\ IF Trim(query) # ""
           THEN /\ showSuggestions' = FALSE
                /\ lastEvent' = [key |-> key, from |-> selectedIndex,
                                 called |-> <<[name |-> Trim(query), ecosystem |-> psEcosystem]>>]
           ELSE /\ showSuggestions' = showSuggestions
                /\ lastEvent' = [key |-> key, from |-> selectedIndex, called |-> <<>>]
    /\ UNCHANGED <<query, psEcosystem, suggestions, selectedIndex, debounce, searches>>

\* handleKeyDown, case "ArrowDown"
ArrowDown ==
    /\ Shown
    /\ selectedIndex' = IF selectedIndex < Len(suggestions) - 1
                        THEN selectedIndex + 1 ELSE selectedIndex
    /\ lastEvent' = [key |-> "ArrowDown", from |-> selectedIndex, called |-> <<>>]
    /\ UNCHANGED <<query, psEcosystem, suggestions, showSuggestions, debounce, searches>>
    /\ UNCHANGED SearchRest

\* handleKeyDown, case "ArrowUp"
ArrowUp ==
    /\ Shown
    /\ selectedIndex' = IF selectedIndex > 0 THEN selectedIndex - 1 ELSE 0 - 1
    /\ lastEvent' = [key |-> "ArrowUp", from |-> selectedIndex, called |-> <<>>]
    /\ UNCHANGED <<query, psEcosystem, suggestions, showSuggestions, debounce, searches>>
    /\ UNCHANGED SearchRest

\* handleKeyDown, case "Enter"; reading suggestions[selectedIndex].name
\* beyond the list would throw and leave the state as it is.
Enter ==
    /\ Shown
    /\ IF selectedIndex >= 0
           THEN IF selectedIndex + 1 \in DOMAIN suggestions
                    THEN SelectSuggestion(selectedIndex, "Enter")
                    ELSE /\ lastEvent' = [key |-> "Enter", from |-> selectedIndex, called |-> <<>>]
                         /\ UNCHANGED <<query, psEcosystem, suggestions, showSuggestions,
                                        selectedIndex, debounce, searches>>
           ELSE IF query # ""
                    THEN Search("Enter")
                    ELSE /\ lastEvent' = [key |-> "Enter", from |-> selectedIndex, called |-> <<>>]
                         /\ UNCHANGED <<query, psEcosystem, suggestions, showSuggestions,
                                        selectedIndex, debounce, searches>>
    /\ UNCHANGED SearchRest

\* handleKeyDown, case "Escape"
Escape ==
    /\ Shown
    /\ showSuggestions' = FALSE
    /\ selectedIndex' = 0 - 1
    /\ lastEvent' = [key |-> "Escape", from |-> selectedIndex, called |-> <<>>]
    /\ UNCHANGED <<query, psEcosystem, suggestions, debounce, searches>>
    /\ UNCHANGED SearchRest

\* onMouseEnter of a rendered suggestion
MouseEnter ==
    /\ Shown
    /\ \E index \in 0..(Len(suggestions) - 1) : selectedIndex' = index
    /\ lastEvent' = NoEvent
    /\ UNCHANGED <<query, psEcosystem, suggestions, showSuggestions, debounce, searches>>
    /\ UNCHANGED SearchRest

\* onClick of a rendered suggestion
ClickSuggestion ==
    /\ Shown
    /\ \E index \in 0..(Len(suggestions) - 1) : SelectSuggestion(index, "click")
    /\ UNCHANGED SearchRest

\* onClick of the Scan Package button, disabled on a blank query
ClickScan ==
    /\ Trim(query) # ""
    /\ Search("click")
    /\ UNCHANGED SearchRest

\* onFocus of the input
Focus ==
    /\ QueryLength(query) >= 2
    /\ Len(suggestions) > 0
    /\ showSuggestions' = TRUE
    /\ lastEvent' = NoEvent
    /\ UNCHANGED <<query, psEcosystem, suggestions, selectedIndex, debounce, searches>>
    /\ UNCHANGED SearchRest

\* handleClickOutside
ClickOutside ==
    /\ showSuggestions' = FALSE
    /\ lastEvent' = NoEvent
    /\ UNCHANGED <<query, psEcosystem, suggestions, selectedIndex, debounce, searches>>
    /\ UNCHANGED SearchRest

\* handleClear, on the button rendered while the query is not empty
Clear ==
    /\ query # ""
    /\ query' = ""
    /\ suggestions' = <<>>
    /\ showSuggestions' = FALSE
    /\ selectedIndex' = 0 - 1
    /\ debounce' = Rearm("", psEcosystem)
    /\ lastEvent' = NoEvent
    /\ UNCHANGED <<psEcosystem, searches>>
    /\ UNCHANGED SearchRest

NextSearch ==
    \/ Type
    \/ SelectEcosystem
    \/ DebounceFires
    \/ SearchSucceeds
    \/ SearchFails
    \/ ArrowDown
    \/ ArrowUp
    \/ Enter
    \/ Escape
    \/ MouseEnter
    \/ ClickSuggestion
    \/ ClickScan
    \/ Focus
    \/ ClickOutside
    \/ Clear

SpecSearch == InitSearch /\ [][NextSearch]_vars

-----------------------------------------------------------------------------
(* fetchWithTimeout under test: two calls in flight at once, each with its *)
(* own AbortController and timer, and the caller's decoding of the body    *)

MaxClock == 3

\* The calls in flight.
CallIds == {1, 2}

\* The timeouts of the calls, in ticks.
TickTimeouts == {1, 2}

\* Positions of a call: fetch pending; fetch resolved and the caller's
\* response.json() pending; body decoded; fetch rejected by the network;
\* fetch rejected by the abort.
CallOf(timeout) == [timeout |-> timeout, pc |-> "fetching", timer |-> "armed", abortedBy |-> 0]

\* finally { clearTimeout(timeoutId) }
TimerAfterFetch == "cleared"

TimeoutRest == <<now, scoreVars, scanVars, vulnVars, retryVars, routeVars, dlVars, searchVars, githubVars, historyVars>>

TimeoutRestInit == VulnIdle /\ RetryIdle /\ RouteIdle /\ DownloadsIdle /\ SearchIdle /\ GithubIdle /\ HistoryIdle

InitTimeout ==
    /\ ScoreParked
    /\ ScanIdle
    /\ TimeoutRestInit
    /\ ftClock = 0
    /\ ftCalls \in [CallIds -> {CallOf(t) : t \in TickTimeouts}]

\* Time passes, unless a timer that is armed is due.
ClockTick ==
    /\ ftClock < MaxClock
    /\ \A c \in CallIds : ftCalls[c].timer = "armed" => ftClock < ftCalls[c].timeout
    /\ ftClock' = ftClock + 1
    /\ UNCHANGED ftCalls
    /\ UNCHANGED TimeoutRest

\* await fetch resolves with the response (its head); finally clears the
\* timer and the response goes to the caller, who decodes the body.
FetchResolves ==
    /\ \E c \in CallIds :
           /\ ftCalls[c].pc = "fetching"
           /\ ftCalls' = [ftCalls EXCEPT ![c].pc = "decoding", ![c].timer = TimerAfterFetch]
    /\ UNCHANGED ftClock
    /\ UNCHANGED TimeoutRest

\* await fetch rejects with a network error; finally clears the timer.
FetchRejects ==
    /\ \E c \in CallIds :
           /\ ftCalls[c].pc = "fetching"
           /\ ftCalls' = [ftCalls EXCEPT ![c].pc = "rejected", ![c].timer = TimerAfterFetch]
    /\ UNCHANGED ftClock
    /\ UNCHANGED TimeoutRest

\* The timer of call c fires: controller.abort() on the signal of that
\* call's fetch, which rejects if it is still pending.
TimerFires ==
    /\ \E c \in CallIds :
           /\ ftCalls[c].timer = "armed"
           /\ ftClock >= ftCalls[c].timeout
           /\ ftCalls' = [ftCalls EXCEPT
                  ![c].timer = "fired",
                  ![c].pc = IF ftCalls[c].pc \in {"fetching", "decoding"} THEN "aborted" ELSE @,
                  ![c].abortedBy = IF ftCalls[c].pc \in {"fetching", "decoding"} THEN c ELSE @]
    /\ UNCHANGED ftClock
    /\ UNCHANGED TimeoutRest

\* The payload arrives and response.json() of the caller settles.
BodyDecoded ==
    /\ \E c \in CallIds :
           /\ ftCalls[c].pc = "decoding"
           /\ ftCalls' = [ftCalls EXCEPT ![c].pc = "decoded"]
    /\ UNCHANGED ftClock
    /\ UNCHANGED TimeoutRest

NextTimeout == ClockTick \/ FetchResolves \/ FetchRejects \/ TimerFires \/ BodyDecoded

SpecTimeout == InitTimeout /\ [][NextTimeout]_vars

-----------------------------------------------------------------------------
(* fetchGitHubStats under test: the two auxiliary counts, for any          *)
(* responses to the per_page=1 requests                                    *)

\* The Link header: absent, present without a rel="last" part, or present
\* with the index of the last page.
LinkProbe ==
    {[present |-> FALSE, last |-> <<>>],
     [present |-> TRUE, last |-> <<>>],
     [present |-> TRUE, last |-> <<2>>],
     [present |-> TRUE, last |-> <<57>>]}

\* The body of the single page: an array of 0 or 1 items, or no array.
PageProbe ==
    {[isArray |-> TRUE, length |-> 0], [isArray |-> TRUE, length |-> 1],
     [isArray |-> FALSE, length |-> 0]}

\* What fetchWithRetry gives for one of the requests: null, or a response.
CountResponses ==
    {<<>>} \cup {<<[ok |-> ok, link |-> l, page |-> b]>> :
                    ok \in BOOLEAN, l \in LinkProbe, b \in PageProbe}

\* contributorsCount
ContributorsCount(response) ==
    IF response = <<>> \/ ~response[1].ok THEN 0
    ELSE IF response[1].link.present
         THEN IF response[1].link.last # <<>> THEN response[1].link.last[1] ELSE 1
         ELSE IF response[1].page.isArray THEN response[1].page.length ELSE 0

\* prCount
PullRequestsCount(response) ==
    IF response = <<>> \/ ~response[1].ok THEN 0
    ELSE IF response[1].link.present
         THEN IF response[1].link.last # <<>> THEN response[1].link.last[1] ELSE 0
         ELSE 0

GithubRest == <<now, scoreVars, scanVars, vulnVars, retryVars, routeVars, dlVars, searchVars, timeoutVars, historyVars>>

GithubRestInit == VulnIdle /\ RetryIdle /\ RouteIdle /\ DownloadsIdle /\ SearchIdle /\ TimeoutIdle /\ HistoryIdle

InitGithub ==
    /\ ScoreParked
    /\ ScanIdle
    /\ GithubRestInit
    /\ ghResponses \in [contributors : CountResponses, pulls : CountResponses]
    /\ ghRet = <<>>

\* One invocation of fetchGitHubStats, from the repository document on.
CountContributorsAndPulls ==
    /\ ghRet = <<>>
    /\ ghRet' = <<[contributors |-> ContributorsCount(ghResponses.contributors),
                   pullRequests |-> PullRequestsCount(ghResponses.pulls)]>>
    /\ UNCHANGED ghResponses
    /\ UNCHANGED GithubRest

NextGithub == CountContributorsAndPulls

SpecGithub == InitGithub /\ [][NextGithub]_vars

-----------------------------------------------------------------------------
(* /api/history: GET and DELETE requests against the scans table           *)

Users == {"u1", "u2"}

\* The rows stored when the requests begin: two scans of u1, one of u2.
StoredScans ==
    {[id |-> 1, userId |-> "u1", scanDate |-> 10],
     [id |-> 2, userId |-> "u1", scanDate |-> 30],
     [id |-> 3, userId |-> "u2", scanDate |-> 20]}

\* The scanId values a DELETE body may carry: a stored id or an unknown one.
ScanIdProbe == {1, 2, 3, 9}

\* .limit(50)
HistoryLimit == 50

\* .orderBy(desc(scans.scanDate))
RECURSIVE ByScanDateDesc(_)
ByScanDateDesc(rows) ==
    IF rows = {} THEN <<>>
    ELSE LET latest == CHOOSE r \in rows : \A o \in rows : o.scanDate <= r.scanDate
         IN  <<latest>> \o ByScanDateDesc(rows \ {latest})

\* db.select().from(scans).where(eq(scans.userId, session.user.id))
\*   .orderBy(desc(scans.scanDate)).limit(50)
SelectUserScans(table, userId) ==
    LET sorted == ByScanDateDesc({r \in table : r.userId = userId})
    IN  SubSeq(sorted, 1, Min(HistoryLimit, Len(sorted)))

\* db.delete(scans).where(eq(scans.id, scanId)): the rows that stay.
DeleteScanRows(table, userId, scanId) == {r \in table : r.id # scanId}

HistoryResponse(method, session, status, rows, removed) ==
    <<[method |-> method, session |-> session, status |-> status,
       rows |-> rows, removed |-> removed]>>

HistoryRest == <<now, scoreVars, scanVars, vulnVars, retryVars, routeVars, dlVars, searchVars, timeoutVars, githubVars>>

HistoryRestInit == VulnIdle /\ RetryIdle /\ RouteIdle /\ DownloadsIdle /\ SearchIdle /\ TimeoutIdle /\ GithubIdle

InitHistory ==
    /\ ScoreParked
    /\ ScanIdle
    /\ HistoryRestInit
    /\ hsScans = StoredScans
    /\ hsLast = <<>>

\* GET /api/history, by a request without a session or with the session of a
\* user; getSession or the select may reject (500).
GetHistory ==
    /\ \E session \in {<<>>} \cup {<<u>> : u \in Users}, settles \in BOOLEAN :
           hsLast' =
               IF ~settles THEN HistoryResponse("GET", session, 500, <<>>, {})
               ELSE IF session = <<>> THEN HistoryResponse("GET", session, 401, <<>>, {})
               ELSE HistoryResponse("GET", session, 200,
                                    SelectUserScans(hsScans, session[1]), {})
    /\ UNCHANGED hsScans
    /\ UNCHANGED HistoryRest

\* DELETE /api/history with a body that carries a scanId or none; getSession,
\* request.json() or the delete may reject (500).
DeleteHistory ==
    /\ \E session \in {<<>>} \cup {<<u>> : u \in Users},
          body \in {<<>>} \cup {<<n>> : n \in ScanIdProbe}, settles \in BOOLEAN :
           IF ~settles
           THEN /\ hsLast' = HistoryResponse("DELETE", session, 500, <<>>, {})
                /\ UNCHANGED hsScans
           ELSE IF session = <<>>
           THEN /\ hsLast' = HistoryResponse("DELETE", session, 401, <<>>, {})
                /\ UNCHANGED hsScans
           ELSE IF body = <<>>
           THEN /\ hsLast' = HistoryResponse("DELETE", session, 400, <<>>, {})
                /\ UNCHANGED hsScans
           ELSE /\ hsScans' = DeleteScanRows(hsScans, session[1], body[1])
                /\ hsLast' = HistoryResponse("DELETE", session, 200, <<>>, hsScans \ hsScans')
    /\ UNCHANGED HistoryRest

NextHistory ==
    \/ GetHistory
    \/ DeleteHistory

SpecHistory == InitHistory /\ [][NextHistory]_vars

-----------------------------------------------------------------------------
(* Claims about scanPackages, checked under SpecScan *)

\* Whether the pipeline of package p raises an exception, given the upstream
\* answers a: a repository document whose topics value is no array, or a
\* vulnerabilities value that is no list.
Throws(p, a) ==
    \/ a.github = "ok" /\ ~a.repo[1].topicsIsArray
    \/ ~FetchVulnerabilities(p, Answer(a.advisories = "ok", AdvisoryPayload(p)),
                             Answer(a.osv = "ok", OsvPayload(p))).isList

\* The analysis of package p on its own, given the upstream answers a.
Alone(p, a) ==
    LET data == Answer(a.meta = "ok", RegistryPayload(p))
        m == CASE p.ecosystem = "npm" -> NpmPackageData(data)
               [] p.ecosystem = "python" -> PypiPackageData(data)
               [] p.ecosystem = "docker" -> DockerImageData(data)
        d == DownloadPayload(p)
        ds == CASE p.ecosystem = "npm" ->
                     NpmDownloadStats(Answer(a.downloads[1], d.lastDay),
                                      Answer(a.downloads[2], d.lastWeek),
                                      Answer(a.downloads[3], d.lastMonth))
                [] p.ecosystem = "python" -> PypiDownloadStats(Answer(a.downloads[1], d))
                [] p.ecosystem = "docker" -> EmptyDownloadStats
        g == IF a.github = "ok" THEN GitHubStats(a.repo) ELSE <<>>
        v == FetchVulnerabilities(p, Answer(a.advisories = "ok", AdvisoryPayload(p)),
                                  Answer(a.osv = "ok", OsvPayload(p)))
    IN  IF Throws(p, a) THEN Degraded(p)
        ELSE [package |-> p,
              vulnerabilities |-> v.items,
              trustScore |-> CalculateTrustScore(v.items, m, m.dependencies, g, ds).score,
              trustScoreBreakdown |->
                  CalculateTrustScore(v.items, m, m.dependencies, g, ds).breakdown,
              metadata |-> m,
              githubStats |-> g,
              downloadStats |-> ds,
              aiDescription |-> AIDescription(m, Answer(a.ai = "ok", "generated text"))]

\* Every fetch made for a package failed.
AllFetchesFailed(a) ==
    /\ a.meta = "fail"
    /\ \A k \in DOMAIN a.downloads : ~a.downloads[k]
    /\ a.github # "ok"
    /\ a.advisories # "ok"
    /\ a.osv # "ok"
    /\ a.ai # "ok"

\* C1: scanPackages never stops short of returning, and returns one analysis
\* per input identifier, the j-th for the j-th identifier.
C1_OneAnalysisPerPackage ==
    /\ pc \in {"loop", "metadata", "downloads", "github", "vulnerabilities",
               "score", "describe"} => ENABLED NextScan
    /\ i \in 1..(Len(packages) + 1)
    /\ Len(results) = i - 1
    /\ \A j \in DOMAIN results : results[j].package = packages[j]
    /\ pc = "done" => Len(results) = Len(packages)

\* C1 witness: a returned scan of two packages, one with a failed fetch and
\* one whose pipeline raised an exception.
C1_Witness ==
    /\ pc = "done"
    /\ Len(packages) >= 2
    /\ \E j \in DOMAIN answers : answers[j].meta = "fail" /\ answers[j].ai # "threw"
    /\ \E j \in DOMAIN answers : answers[j].ai = "threw"

\* C2: a package whose pipeline raises an exception yields the degraded
\* analysis, the loop goes on to the next package, and every package's
\* analysis is the one it gets on its own from the answers to its own
\* fetches, whatever happened to the others.
C2_FailureStaysInItsPackage ==
    /\ Len(answers) = Len(results)
    /\ \A j \in DOMAIN results :
        /\ results[j] = Alone(packages[j], answers[j])
        /\ answers[j].ai = "threw" <=> Throws(packages[j], answers[j])
        /\ answers[j].ai = "threw" =>
            /\ results[j].trustScore = 0
            /\ results[j].trustScoreBreakdown =
                   [security |-> 0, maintenance |-> 0, popularity |-> 0, dependencies |-> 0]
            /\ results[j].vulnerabilities = <<>>
            /\ results[j].metadata.description = <<"Error during analysis">>
            /\ (pc = "done" \/ i > j)
    /\ pc = "done" => Len(results) = Len(packages)

\* C2 witness: the first package raised an exception after its download
\* stats were fetched, and the next one, a docker image, was analysed.
C2_Witness ==
    /\ Len(results) >= 2
    /\ answers[1].ai = "threw"
    /\ answers[1].downloads = <<TRUE, TRUE, TRUE>>
    /\ results[1].trustScore = 0
    /\ packages[2].ecosystem = "docker"
    /\ results[2].trustScore > 0

SystemicFailure ==
    /\ pc = "done"
    /\ packages # <<>>
    /\ \A j \in DOMAIN answers : AllFetchesFailed(answers[j])

\* C3 as stated: when every fetch for every package fails, the list is
\* full-length and every trustScore in it is 0.
C3_SystemicFailureAllZero ==
    SystemicFailure =>
        /\ Len(results) = Len(packages)
        /\ \A j \in DOMAIN results : results[j].trustScore = 0

\* C3 amended: when every fetch for every package fails, the list is
\* full-length and each package is scored on empty defaults: 85 less the
\* security penalty of its fallback-table entries, and 0 only for a name
\* that hits an inherited property of the table object.
C3_SystemicFailureScoresDefaults ==
    SystemicFailure =>
        /\ Len(results) = Len(packages)
        /\ \A j \in DOMAIN results :
            LET name == packages[j].name
                fb == IF name \in DOMAIN FallbackTable THEN FallbackTable[name] ELSE <<>>
            IN  results[j].trustScore =
                    IF name \in InheritedKeys THEN 0
                    ELSE 85 - 15 * CountSeverity(fb, "critical")
                            - 10 * CountSeverity(fb, "high")
                            - 5 * CountSeverity(fb, "medium")

\* C3 witness: a returned scan under systemic failure with scores 85 and 75.
C3_Witness ==
    /\ SystemicFailure
    /\ \E j \in DOMAIN results : results[j].trustScore = 85
    /\ \E j \in DOMAIN results : results[j].trustScore = 75

-----------------------------------------------------------------------------
(* Claims about calculateTrustScore, checked under SpecScore *)

Invoked == ret # <<>> /\ raw # <<>> /\ first # <<>>

BreakdownFields == {"security", "maintenance", "popularity", "dependencies"}

C5_ScoreAndBreakdownInRange ==
    ret # <<>> =>
        /\ ret[1].score \in 0..100
        /\ \A f \in BreakdownFields : ret[1].breakdown[f] \in 0..100

\* C5 witness: a result for more vulnerabilities than the 40 security points
\* can pay for.
C5_Witness ==
    /\ ret # <<>>
    /\ CountSeverity(args.vulnerabilities, "critical") * 15 > 40
    /\ ret[1].breakdown.security = 0

WithOneMore(vulnerabilities, s) ==
    Append(vulnerabilities, [id |-> Len(vulnerabilities) + 1, severity |-> s])

\* C6: the raw security sub-score is max(0, 40 - 15c - 10h - 5m), lies in
\* 0..40, does not increase with one more critical, high or medium
\* vulnerability, and is unchanged by one more low one.
C6_SecuritySubScore ==
    raw # <<>> =>
        LET v == args.vulnerabilities
            c == CountSeverity(v, "critical")
            h == CountSeverity(v, "high")
            m == CountSeverity(v, "medium")
        IN  /\ raw[1].security = Max(0, 40 - 15 * c - 10 * h - 5 * m)
            /\ raw[1].security \in 0..40
            /\ \A s \in {"critical", "high", "medium"} :
                   SecurityScore(WithOneMore(v, s)) <= raw[1].security
            /\ SecurityScore(WithOneMore(v, "low")) = raw[1].security

\* C6 witness: a list with a low-severity entry whose other entries leave a
\* positive score.
C6_Witness ==
    /\ raw # <<>>
    /\ CountSeverity(args.vulnerabilities, "low") > 0
    /\ CountSeverity(args.vulnerabilities, "high") > 0
    /\ raw[1].security = 30

\* The penalty the claim states for a publish d days old.
ClaimedPublishPenalty(d) ==
    IF d >= 730 THEN 15 ELSE IF d >= 365 THEN 10 ELSE IF d >= 180 THEN 5 ELSE 0

\* C7: the raw maintenance sub-score is 25, minus 15 if the last publish is
\* d >= 730 days old, else 10 if d >= 365, else 5 if d >= 180, plus 5 if the
\* last commit is less than 30 days old, clamped to 0..25; an absent or
\* unparseable date adjusts nothing.
C7_MaintenanceSubScore ==
    raw # <<>> =>
        LET p == args.metadata.lastPublish
            g == args.githubStats
            penalty == IF p.kind = "date" THEN ClaimedPublishPenalty(retAt - p.t) ELSE 0
            bonus == IF g # <<>> /\ g[1].lastCommit.kind = "date"
                        /\ retAt - g[1].lastCommit.t < 30
                     THEN 5 ELSE 0
        IN  raw[1].maintenance = Min(25, Max(0, 25 - penalty + bonus))

ClaimedStars(g) ==
    IF g = <<>> THEN 0
    ELSE IF g[1].stars > 10000 THEN 8 ELSE IF g[1].stars > 1000 THEN 6
    ELSE IF g[1].stars > 100 THEN 4 ELSE IF g[1].stars > 10 THEN 2 ELSE 0

ClaimedDownloads(m) ==
    IF m = <<>> THEN 0
    ELSE IF m[1] > 1000000 THEN 7 ELSE IF m[1] > 100000 THEN 5
    ELSE IF m[1] > 10000 THEN 3 ELSE IF m[1] > 1000 THEN 1 ELSE 0

\* C8: the raw popularity sub-score is min(20, 5 + S + D), S the highest star
\* bracket met and D the highest download bracket met, absent stats adding 0;
\* it lies in 5..20.
C8_PopularitySubScore ==
    raw # <<>> =>
        /\ raw[1].popularity =
               Min(20, 5 + ClaimedStars(args.githubStats)
                         + ClaimedDownloads(args.downloadStats.lastMonth))
        /\ raw[1].popularity \in 5..20

\* C8 witness: both top brackets are met and the sub-score is 20.
C8_Witness ==
    /\ raw # <<>>
    /\ args.githubStats # <<>>
    /\ args.githubStats[1].stars > 10000
    /\ args.downloadStats.lastMonth = <<1000001>>
    /\ raw[1].popularity = 20

ClaimedDependencies(n) ==
    IF n > 100 THEN 5 ELSE IF n > 50 THEN 10 ELSE IF n > 20 THEN 12 ELSE 15

\* C9: the raw dependencies sub-score is 5 for n > 100 keys, 10 for
\* 50 < n <= 100, 12 for 20 < n <= 50 and 15 for n <= 20, and does not
\* increase with one more key.
C9_DependenciesSubScore ==
    raw # <<>> =>
        LET n == Cardinality(args.dependencies)
        IN  /\ raw[1].dependencies = ClaimedDependencies(n)
            /\ DependenciesScore(args.dependencies \cup {n + 1}) <= raw[1].dependencies

\* C9 witness: exactly 100 keys still score 10.
C9_Witness ==
    /\ raw # <<>>
    /\ Cardinality(args.dependencies) = 100
    /\ raw[1].dependencies = 10

\* The scenario of C10: last publish 800 days ago, no repository stats, no
\* download stats, no vulnerabilities, no dependencies.
C10_Scenario ==
    /\ args.vulnerabilities = <<>>
    /\ args.dependencies = {}
    /\ args.githubStats = <<>>
    /\ args.downloadStats.lastMonth = <<>>
    /\ args.metadata.lastPublish.kind = "date"
    /\ retAt - args.metadata.lastPublish.t = 800

\* C10: the score is the sum of the four raw sub-scores clamped to 0..100,
\* and the scenario scores 70 with breakdown 100, 40, 25, 100.
C10_CompositeScore ==
    Invoked =>
        /\ ret[1].score = Min(100, Max(0, raw[1].security + raw[1].maintenance
                                          + raw[1].popularity + raw[1].dependencies))
        /\ C10_Scenario =>
               /\ ret[1].score = 70
               /\ ret[1].breakdown = [security |-> 100, maintenance |-> 40,
                                      popularity |-> 25, dependencies |-> 100]

\* C10 witness: the scenario has been scored.
C10_Witness == Invoked /\ C10_Scenario /\ ret[1].score = 70

\* C11: each breakdown field is its own raw sub-score over its own maximum
\* (40, 25, 20, 15) times 100, rounded to the nearest integer with a half
\* rounding up, field by field: never below the exact quotient by more than a
\* half, never above it by more than a half; raw security 5 gives 13 and raw
\* dependencies 10 gives 67.
C11_BreakdownNormalisedPerField ==
    Invoked =>
        LET b == ret[1].breakdown
            r == raw[1]
            Nearest(x, n, d) == 2 * d * x <= 2 * n * 100 + d /\ 2 * n * 100 + d < 2 * d * (x + 1)
        IN  /\ Nearest(b.security, r.security, 40)
            /\ Nearest(b.maintenance, r.maintenance, 25)
            /\ Nearest(b.popularity, r.popularity, 20)
            /\ Nearest(b.dependencies, r.dependencies, 15)
            /\ r.security = 5 => b.security = 13
            /\ r.dependencies = 10 => b.dependencies = 67

\* C11 witness: one critical and two high vulnerabilities with 60
\* dependencies: security 13 and dependencies 67, which with the other two
\* fields do not sum to the score.
C11_Witness ==
    /\ Invoked
    /\ args \in ScenarioInputs
    /\ ret[1].breakdown.security = 13
    /\ ret[1].breakdown.dependencies = 67
    /\ ret[1].breakdown.security + ret[1].breakdown.maintenance
           + ret[1].breakdown.popularity + ret[1].breakdown.dependencies # ret[1].score

\* C12: round(security * 0.4 + maintenance * 0.25 + popularity * 0.20 +
\* dependencies * 0.15) over the breakdown equals the sum of the four raw
\* sub-scores, and equals the score.
C12_BreakdownReconstructsScore ==
    Invoked =>
        LET b == ret[1].breakdown
            weighted == Round(40 * b.security + 25 * b.maintenance
                              + 20 * b.popularity + 15 * b.dependencies, 100)
        IN  /\ weighted = raw[1].security + raw[1].maintenance
                          + raw[1].popularity + raw[1].dependencies
            /\ Min(100, Max(0, weighted)) = ret[1].score

\* C12 witness: two fields that were rounded (62.5 to 63 and 66.67 to 67).
C12_Witness ==
    /\ Invoked
    /\ raw[1].security = 25
    /\ ret[1].breakdown.security = 63
    /\ raw[1].dependencies = 10
    /\ ret[1].breakdown.dependencies = 67

-----------------------------------------------------------------------------
(* Claims about fetchVulnerabilities, checked under SpecVuln *)

Called == vCall # <<>>

IdsOf(list) == {list[k].id : k \in DOMAIN list}

\* C13: the merged list holds every advisory id of A or B exactly once (also
\* when an id repeats within one source), A's entries precede B's, the set of
\* ids is the same when B is iterated first, and for an id in both sources
\* the retained record is the one from source A.
C13_MergeFirstSightWins ==
    Called =>
        LET A == vCall[1].githubVulns
            B == vCall[1].osvVulns
            out == vCall[1].returned
        IN  (A # <<>> \/ B # <<>>) =>
                /\ out.isList
                /\ IdsOf(out.items) = IdsOf(A) \cup IdsOf(B)
                /\ \A j, k \in DOMAIN out.items :
                       out.items[j].id = out.items[k].id => j = k
                /\ \A j, k \in DOMAIN out.items :
                       out.items[j].id \in IdsOf(A) /\ out.items[k].id \notin IdsOf(A) => j < k
                /\ IdsOf(PushUnseen(PushUnseen(<<>>, B), A)) = IdsOf(out.items)
                /\ \A k \in DOMAIN out.items :
                       out.items[k].id \in IdsOf(A) =>
                           \E j \in DOMAIN A : A[j] = out.items[k]
                /\ \A k \in DOMAIN out.items :
                       \E j \in DOMAIN A \cup DOMAIN B :
                           \/ j \in DOMAIN A /\ A[j] = out.items[k]
                           \/ j \in DOMAIN B /\ B[j] = out.items[k]

\* C13 witness: GHSA-1 twice in A and once more in B with another title, and
\* an id only B holds: two entries, the first being A's.
C13_Witness ==
    /\ Called
    /\ Len(vCall[1].githubVulns) = 2
    /\ vCall[1].githubVulns[1].id = vCall[1].githubVulns[2].id
    /\ IdsOf(vCall[1].osvVulns) = {"GHSA-1", "OSV-2"}
    /\ vCall[1].githubVulns[1].id = "GHSA-1"
    /\ vCall[1].returned.isList
    /\ Len(vCall[1].returned.items) = 2
    /\ vCall[1].returned.items[1].title = "from A"
    /\ vCall[1].returned.items[2].id = "OSV-2"

\* C14: the fallback table's entries are returned, verbatim, if and only if
\* the merged live result is empty and the exact name is a key of the table;
\* a non-empty merged result is returned as it is; and for a name absent from
\* both live sources and the table the result is an empty list, never a
\* value that is no list.
C14_FallbackOnlyWhenEmptyAndKeyed ==
    Called =>
        LET merged == PushUnseen(PushUnseen(<<>>, vCall[1].githubVulns), vCall[1].osvVulns)
            keyed == vPkg.name \in {"lodash", "express", "django", "requests", "nginx"}
            out == vCall[1].returned
        IN  /\ (merged = <<>> /\ keyed) => out = ListValue(FallbackTable[vPkg.name])
            /\ (out.isList /\ out.items # <<>> /\ \A k \in DOMAIN out.items : out.items[k].title # "from A" /\ out.items[k].title # "from B")
                   => (merged = <<>> /\ keyed)
            /\ merged # <<>> => out = ListValue(merged)
            /\ (merged = <<>> /\ ~keyed) => out = ListValue(<<>>)

\* C15: a record of source B takes the explicit severity tag when there is
\* one; otherwise, with a numeric score s: critical if s >= 9, high if
\* 7 <= s < 9, medium if 4 <= s < 7, low for every s < 4, s = 0 included.
C15_OsvSeverityThresholds ==
    (Called /\ vVulns # <<>>) =>
        \A k \in DOMAIN vCall[1].osvVulns :
            LET in == vVulns[1][k]
                sev == vCall[1].osvVulns[k].severity
            IN  IF in.tag # <<>> THEN sev = ToLowerCase(in.tag[1])
                ELSE in.score # <<>> =>
                         sev = IF in.score[1] >= 9 THEN "critical"
                               ELSE IF in.score[1] >= 7 THEN "high"
                               ELSE IF in.score[1] >= 4 THEN "medium"
                               ELSE "low"

\* C16: every vulnerability of every returned list has a severity among
\* critical, high, medium, low, whatever strings the sources supply.
C16_ReturnedSeverityInEnum ==
    (Called /\ vCall[1].returned.isList) =>
        \A k \in DOMAIN vCall[1].returned.items :
            vCall[1].returned.items[k].severity \in Severity

-----------------------------------------------------------------------------
(* Claims about fetchWithRetry, checked under SpecRetry *)

\* C17: fetchWithRetry makes at most retries attempts, returns the response
\* of the first attempt that resolves and makes no attempt after it, returns
\* null after retries rejected attempts, and never leaves an exception to
\* its caller.
C17_AtMostRetriesFirstResponseElseNull ==
    /\ Len(fwrLog) <= fwrArgs.retries
    /\ fwrPc # "raised"
    /\ \A k \in DOMAIN fwrLog :
           fwrLog[k] \in Resolved =>
               /\ k = Len(fwrLog)
               /\ fwrPc = "done"
               /\ fwrRet = <<ResponseOf(fwrLog[k], k)>>
    /\ (fwrPc = "done" /\ \A k \in DOMAIN fwrLog : fwrLog[k] \in Rejected) =>
           /\ fwrRet = <<Null>>
           /\ Len(fwrLog) = fwrArgs.retries
    /\ (Len(fwrLog) = fwrArgs.retries /\ \A k \in DOMAIN fwrLog : fwrLog[k] \in Rejected) =>
           \/ fwrRet = <<Null>>
           \/ fwrArgs.retries = 0 /\ ENABLED LoopExit
    /\ fwrRet # <<>> <=> fwrPc = "done"

\* C17 witness: three attempts allowed, the first rejected, the second
\* resolved and returned, no third made.
C17_Witness ==
    /\ fwrArgs.retries = 3
    /\ Len(fwrLog) = 2
    /\ fwrLog[1] \in Rejected
    /\ fwrRet = <<ResponseOf("2xx", 2)>>
    /\ ~ENABLED NextRetry

-----------------------------------------------------------------------------
(* Claims about the scan routes, checked under SpecRoute *)

SaveOutcomes ==
    {"no session", "session timeout", "session error", "error caught",
     "db unavailable", "insert failed", "saved"}

\* C18: the response with the analyses is produced without waiting for the
\* background save: once the save is spawned the handler can respond, and
\* whatever the save path does (no session, session timeout, database
\* unavailable, insert failing on all three attempts, insert succeeding,
\* never completing) the response is the same 200 with the same body, and
\* the save path ends in its own catch or return, never in the handler.
C18_ResponseIndependentOfSave ==
    /\ rtPc = "spawned" => ENABLED Respond
    /\ rtPc = "responded" =>
           rtResponse = <<[status |-> 200, body |-> ScanResultOf(rtRoute, rtAnalyses)]>>
    /\ savePc \in {"session", "dbcheck", "retryloop", "insert", "backoff", "hung", "done"} =>
           rtPc = "responded"
    /\ savePc = "done" <=> saveOutcome \in SaveOutcomes
    /\ savePc # "done" => saveOutcome = "none"

\* C18 witness: the insert failed on all three attempts, and the response
\* was the 200 with the analyses.
C18_Witness ==
    /\ savePc = "done"
    /\ saveOutcome = "insert failed"
    /\ saveAttempt = 3
    /\ scansTable = <<>>
    /\ rtResponse # <<>>
    /\ rtResponse[1].status = 200
    /\ rtResponse[1].body.packages = rtAnalyses

-----------------------------------------------------------------------------
(* Claims about fetchNpmDownloadStats, checked under SpecDownloads *)

\* Whether the request of window w failed: a null response, a status
\* outside 2xx, or an undecodable body.
WindowFailed(w) ==
    \/ dlRequests[w][1].kind = "null"
    \/ ~dlRequests[w][1].ok
    \/ dlRequests[w][1].body = <<>>

\* C19: the three requests are in flight together (while nothing is
\* returned, each unsettled one can settle, whatever the others did), the
\* return waits for all three, and for every subset of failed windows the
\* failed windows report 0 and every other window its own count.
C19_WindowsIndependent ==
    /\ (dlRet = <<>> /\ \E w \in Windows : dlRequests[w] = <<>>) =>
           ENABLED SettleRequest /\ ~ENABLED JoinAndReturn
    /\ dlRet # <<>> =>
           /\ \A w \in Windows : dlRequests[w] # <<>>
           /\ \A w \in Windows :
                  dlRet[1][w] = IF WindowFailed(w) THEN <<0>> ELSE <<WindowDownloads(w)>>

\* C19 witness: the month settled first and the day last; the week failed
\* and reports 0 while day and month report their own counts.
C19_Witness ==
    /\ dlRet # <<>>
    /\ dlOrder = <<"lastMonth", "lastWeek", "lastDay">>
    /\ WindowFailed("lastWeek")
    /\ dlRet[1] = [lastDay |-> <<7>>, lastWeek |-> <<0>>, lastMonth |-> <<200>>]

-----------------------------------------------------------------------------
(* Claims about the PackageSearch component, checked under SpecSearch *)

\* What each key did to the highlight and the dropdown, given the index
\* before it: ArrowDown to the next and no further than the last, ArrowUp to
\* the previous and from the first to none, Escape closing.
KeysMoveHighlight ==
    /\ lastEvent.key = "ArrowDown" =>
           selectedIndex = IF lastEvent.from < Len(suggestions) - 1
                           THEN lastEvent.from + 1 ELSE lastEvent.from
    /\ lastEvent.key = "ArrowUp" =>
           selectedIndex = IF lastEvent.from > 0 THEN lastEvent.from - 1 ELSE 0 - 1
    /\ lastEvent.key = "Escape" => ~showSuggestions /\ selectedIndex = 0 - 1

\* Enter on a highlight scans that suggestion, which is one of the list.
EnterScansHighlighted ==
    (lastEvent.key = "Enter" /\ lastEvent.from >= 0) =>
        /\ lastEvent.from + 1 \in DOMAIN suggestions
        /\ lastEvent.called = <<[name |-> suggestions[lastEvent.from + 1],
                                 ecosystem |-> psEcosystem]>>

\* C20: with the dropdown shown, ArrowDown moves the highlight to the next
\* suggestion and stays on the last, ArrowUp to the previous one and from
\* the first to none, Enter scans the highlighted suggestion or, without a
\* highlight, the current query, Escape closes the dropdown; and after any
\* sequence of key presses, hovers and suggestion updates the highlight
\* index is within -1..n-1 for the n suggestions of the current list.
C20_KeyboardNavigation ==
    /\ KeysMoveHighlight
    /\ EnterScansHighlighted
    /\ (lastEvent.key = "Enter" /\ lastEvent.from < 0) =>
           lastEvent.called = <<[name |-> query, ecosystem |-> psEcosystem]>>
    /\ selectedIndex \in (0 - 1)..(Len(suggestions) - 1)

\* C20 as the code has it: Enter without a highlight scans the trimmed
\* query, and nothing when that is blank; the index is within -1..n-1
\* whenever the list is not empty, while a list emptied by a short query or
\* a failed request keeps the index it had, with nothing shown and no key
\* handled.
C20_KeyboardNavigationWhileListed ==
    /\ KeysMoveHighlight
    /\ EnterScansHighlighted
    /\ (lastEvent.key = "Enter" /\ lastEvent.from < 0) =>
           lastEvent.called = IF Trim(query) # ""
                              THEN <<[name |-> Trim(query), ecosystem |-> psEcosystem]>>
                              ELSE <<>>
    /\ Len(suggestions) >= 1 => selectedIndex \in (0 - 1)..(Len(suggestions) - 1)
    /\ selectedIndex >= 0 - 1
    /\ Len(suggestions) = 0 =>
           ~(ENABLED ArrowDown \/ ENABLED ArrowUp \/ ENABLED Enter \/ ENABLED Escape)

\* C20 witness: ArrowDown twice over two suggestions stayed on the last one,
\* and Enter scanned it.
C20_Witness ==
    /\ lastEvent.key = "Enter"
    /\ lastEvent.from = 1
    /\ Len(suggestions) = 2
    /\ lastEvent.called = <<[name |-> "re2", ecosystem |-> "npm"]>>
    /\ ~showSuggestions

-----------------------------------------------------------------------------
(* Further claims about fetchWithRetry, checked under SpecRetry *)

\* What the callers take for a failed attempt: a rejected fetch, or a
\* response that safeJsonParse turns into null.
FailedAttempt(outcome) == outcome \in Rejected \/ outcome = "non-2xx"

\* C21: whenever attempt k (1-indexed) fails, by timeout, by network error
\* or by a non-2xx response, and k < retries, the client waits
\* 1000 * 2^(k-1) ms and then makes attempt k+1: it does not return after
\* attempt k, and the k-th delay it sleeps is 1000 * 2^(k-1).
C21_BackoffAfterEveryFailure ==
    \A k \in DOMAIN fwrLog :
        (FailedAttempt(fwrLog[k]) /\ k < fwrArgs.retries) =>
            /\ fwrPc = "done" => Len(fwrLog) > k
            /\ Len(fwrDelays) >= k => fwrDelays[k] = 1000 * 2^(k - 1)
            /\ Len(fwrLog) > k => Len(fwrDelays) >= k

-----------------------------------------------------------------------------
(* Claims about fetchWithTimeout, checked under SpecTimeout *)

\* C22: every attempt is bounded by its timeout: a call whose upstream
\* exchange, the delivery of the payload the caller decodes included, is not
\* over when the timer is due is aborted and counts as failed; a call that
\* completes first has its timer cancelled; and the timer of one call never
\* aborts another call.
C22_EveryAttemptBoundedByTimeout ==
    \A c \in CallIds :
        /\ ftClock > ftCalls[c].timeout => ftCalls[c].pc \in {"decoded", "rejected", "aborted"}
        /\ ftCalls[c].timer = "fired" => ftCalls[c].pc = "aborted"
        /\ ftCalls[c].pc \in {"decoded", "rejected"} => ftCalls[c].timer = "cleared"
        /\ ftCalls[c].pc = "aborted" => ftCalls[c].abortedBy = c

-----------------------------------------------------------------------------
(* Further claims about scanPackages, checked under SpecScan *)

\* The order of the phases of one package, and the loop around them.
PhaseOrder ==
    {<<"loop", "metadata">>, <<"loop", "done">>,
     <<"metadata", "downloads">>, <<"metadata", "github">>,
     <<"downloads", "github">>,
     <<"github", "vulnerabilities">>, <<"github", "loop">>,
     <<"vulnerabilities", "score">>,
     <<"score", "describe">>, <<"score", "loop">>,
     <<"describe", "loop">>}

\* One step of the scan: the position moves along the phase order; the next
\* package is taken up exactly when one analysis has been appended; and the
\* score put into the locals is computed from what the fetch phases left
\* there.
PhaseStep ==
    /\ pc' # pc => <<pc, pc'>> \in PhaseOrder
    /\ (<<pc, pc'>> = <<"metadata", "github">>) => pkg.ecosystem = "docker"
    /\ i' # i => /\ i' = i + 1
                 /\ pc' = "loop"
                 /\ Len(results') = Len(results) + 1
                 /\ results'[i].package = packages[i]
    /\ i' = i => results' = results
    /\ (pc = "score" /\ pc' = "describe") =>
           /\ locals.asked.meta # "none"
           /\ locals.asked.osv # "none"
           /\ locals'.score = <<CalculateTrustScore(locals.vulnerabilities.items,
                                                    locals.metadata,
                                                    locals.metadata.dependencies,
                                                    locals.githubStats,
                                                    locals.downloadStats)>>

\* While package i is in one of its phases, exactly the analyses of the
\* packages before it are in the list, and nothing of a later phase has been
\* asked yet.
PhaseState ==
    /\ pc \in {"metadata", "downloads", "github", "vulnerabilities", "score", "describe"} =>
           /\ i \in DOMAIN packages
           /\ Len(results) = i - 1
    /\ pc = "metadata" => locals.asked = NoAnswers
    /\ pc \in {"metadata", "downloads", "github"} => locals.asked.osv = "none"
    /\ pc \in {"metadata", "downloads", "github", "vulnerabilities", "score"} =>
           locals.score = <<>>

\* C23: scanPackages goes through the list strictly in sequence, and for
\* each package through metadata, download stats, repository stats,
\* vulnerabilities, scoring, in this order; scoring uses the results of the
\* fetch phases; and no fetch for package i+1 starts before the analysis of
\* package i, normal or degraded, is in the result list.
C23_SequentialPhases == [](PhaseState) /\ [][PhaseStep]_vars

\* C23 witness: the second of two packages is being scored after the first
\* one, degraded, was appended.
C23_Witness ==
    /\ Len(packages) = 2
    /\ i = 2
    /\ pc = "score"
    /\ Len(results) = 1
    /\ results[1].trustScore = 0
    /\ locals.asked.osv = "ok"

-----------------------------------------------------------------------------
(* Claims about fetchGitHubStats, checked under SpecGithub *)

\* The count the claim derives from an ok response: the last-page index of
\* the pagination metadata, and without pagination metadata the length of
\* the single page.
ClaimedCount(response, count) ==
    /\ (response[1].link.present /\ response[1].link.last # <<>>) =>
           count = response[1].link.last[1]
    /\ (~response[1].link.present /\ response[1].page.isArray) =>
           count = response[1].page.length

\* C24: contributors and pull requests are counted the same way: the
\* last-page index when the response carries one, the length of the single
\* returned page when it carries no pagination metadata.
C24_CountsDerivedAlike ==
    ghRet # <<>> =>
        /\ (ghResponses.contributors # <<>> /\ ghResponses.contributors[1].ok) =>
               ClaimedCount(ghResponses.contributors, ghRet[1].contributors)
        /\ (ghResponses.pulls # <<>> /\ ghResponses.pulls[1].ok) =>
               ClaimedCount(ghResponses.pulls, ghRet[1].pullRequests)

-----------------------------------------------------------------------------
(* Further claims about fetchVulnerabilities, checked under SpecVuln *)

\* C25: for a docker identifier, or without GITHUB_TOKEN, source A
\* contributes nothing whatever it would have answered, and this is no
\* error: source B is still queried and the result is exactly B's records,
\* each id once, or the fallback table's entries when B has none (an empty
\* list when the table has none either).
C25_SourceASkipped ==
    (Called /\ (vPkg.ecosystem = "docker" \/ ~env.githubToken)) =>
        LET B == vCall[1].osvVulns
            out == vCall[1].returned
        IN  /\ vCall[1].githubVulns = <<>>
            /\ vVulns # <<>> => Len(B) = Len(vVulns[1])
            /\ out.isList
            /\ B # <<>> =>
                   /\ IdsOf(out.items) = IdsOf(B)
                   /\ \A j, k \in DOMAIN out.items :
                          out.items[j].id = out.items[k].id => j = k
                   /\ \A k \in DOMAIN out.items : \E j \in DOMAIN B : B[j] = out.items[k]
            /\ B = <<>> =>
                   out.items = IF vPkg.name \in DOMAIN FallbackTable
                               THEN FallbackTable[vPkg.name] ELSE <<>>

-----------------------------------------------------------------------------
(* Claims about executeWithRetry, checked under SpecExec *)

\* What holds of a call of executeWithRetry at every moment: the operation
\* was invoked at most retries times, every invocation before the latest
\* was rejected, a resolved invocation ends the call with its result, the
\* k-th sleep lasted delayMs * 2^(k-1) and there is one sleep between a
\* rejected invocation and the next, and the call ends with null exactly
\* when all retries invocations were rejected.
ExecState ==
    LET n == Len(saveLog)
    IN  /\ n <= ewrArgs.retries
        /\ \A k \in 1..(n - 1) : saveLog[k] = "rejected"
        /\ (n > 0 /\ saveLog[n] = "resolved") => (savePc = "done" /\ saveOutcome = "saved")
        /\ \A k \in DOMAIN saveWaits : saveWaits[k] = ewrArgs.delayMs * 2^(k - 1)
        /\ savePc \in {"retryloop", "insert"} => Len(saveWaits) = n
        /\ savePc \in {"backoff", "hung"} => Len(saveWaits) = n - 1
        /\ savePc = "done" =>
               /\ saveOutcome \in {"saved", "insert failed"}
               /\ Len(saveWaits) = IF n = 0 THEN 0 ELSE n - 1
               /\ saveOutcome = "saved" <=> (n > 0 /\ saveLog[n] = "resolved")
               /\ saveOutcome = "insert failed" <=>
                      (n = ewrArgs.retries /\ \A k \in 1..n : saveLog[k] = "rejected")

-----------------------------------------------------------------------------
(* A further claim about calculateTrustScore, checked under SpecScore *)

\* C27: calculateTrustScore never returns a score below 20: its raw
\* sub-scores are at least 0 (security), 10 (maintenance), 5 (popularity)
\* and 5 (dependencies); so a returned score is never the trustScore 0 that
\* the exception handler of scanPackages writes into its degraded record,
\* and a trustScore of 0 in the output marks exactly that record.
C27_ScoreAtLeastTwenty ==
    Invoked =>
        /\ raw[1].security >= 0
        /\ raw[1].maintenance >= 10
        /\ raw[1].popularity >= 5
        /\ raw[1].dependencies >= 5
        /\ ret[1].score >= 20
        /\ \A p \in PackageProbe :
               /\ Degraded(p).trustScore = 0
               /\ ret[1].score # Degraded(p).trustScore

\* C27 witness: the four minima at once, score 20.
C27_Witness ==
    /\ Invoked
    /\ raw[1] = [security |-> 0, maintenance |-> 10, popularity |-> 5, dependencies |-> 5]
    /\ ret[1].score = 20

\* The same seen in the output of scanPackages (under SpecScan): an
\* analysis has trustScore 0 if and only if it is the degraded record.
ZeroScoreOnlyWhenDegraded ==
    \A k \in DOMAIN results :
        /\ results[k].trustScore = 0 <=> results[k] = Degraded(packages[k])
        /\ results[k].trustScore # 0 => results[k].trustScore >= 20

-----------------------------------------------------------------------------
(* A further claim about the scan routes, checked under SpecRoute *)

\* The number of vulnerability records over the analyses of a result.
RECURSIVE RecordsIn(_)
RecordsIn(analyses) ==
    IF analyses = <<>> THEN 0
    ELSE Len(Head(analyses).vulnerabilities) + RecordsIn(Tail(analyses))

\* C28: in every ScanResult of either route, criticalCount + highCount +
\* mediumCount + lowCount equals totalVulnerabilities, and
\* totalVulnerabilities is the number of vulnerability records over all
\* package analyses of the result.
C28_SeverityCountsSumToTotal ==
    rtResponse # <<>> =>
        LET body == rtResponse[1].body
        IN  /\ body.totalVulnerabilities = RecordsIn(body.packages)
            /\ body.criticalCount + body.highCount + body.mediumCount + body.lowCount
                   = body.totalVulnerabilities

-----------------------------------------------------------------------------
(* Claims about /api/history, checked under SpecHistory *)

\* C29: scan history is isolated per user: whatever requests came before,
\* a request of an authenticated user is answered only with scans whose
\* userId is that user's and removes only such scans, and a request without
\* a session is answered 401, reads nothing and removes nothing.
C29_HistoryIsolatedPerUser ==
    hsLast # <<>> =>
        IF hsLast[1].session = <<>>
        THEN /\ hsLast[1].status \in {401, 500}
             /\ hsLast[1].rows = <<>>
             /\ hsLast[1].removed = {}
        ELSE /\ \A k \in DOMAIN hsLast[1].rows : hsLast[1].rows[k].userId = hsLast[1].session[1]
             /\ \A r \in hsLast[1].removed : r.userId = hsLast[1].session[1]

\* The part of C29 about reading alone.
HistoryReadIsolated ==
    (hsLast # <<>> /\ hsLast[1].session # <<>>) =>
        \A k \in DOMAIN hsLast[1].rows : hsLast[1].rows[k].userId = hsLast[1].session[1]

-----------------------------------------------------------------------------
(* A further claim about PackageSearch, checked under SpecSearch *)

\* No timer is pending and no request is in flight.
SearchSettled == debounce = <<>> /\ searches = {}

\* C30: whatever the edits and the order in which the requests complete,
\* once every request in flight has completed the suggestions are those
\* returned for the most recent query and ecosystem (none, if that request
\* failed), and for a query shorter than 2 characters the list is empty.
C30_LatestQueryWins ==
    SearchSettled =>
        IF QueryLength(query) < 2
        THEN suggestions = <<>>
        ELSE suggestions \in {<<>>, SearchResults(query, psEcosystem)}

====
